---- MODULE Spec2Model ----
(***************************************************************************)
(* Model of the request-tracking pipeline of llm-request-tracer:           *)
(*   - CircuitBreaker (circuit_breaker.go): Call / GetState / IsOpen under *)
(*     one sync.Mutex, with a discrete clock standing for time.Now().      *)
(*   - Client (client.go): Trace*Request -> track -> doTrack ->            *)
(*     trackRequest -> storage.Save, synchronously or on a goroutine.      *)
(***************************************************************************)
EXTENDS Integers, Sequences, FiniteSets, TLC

\* ------------------------------------------------------------------ bounds
MaxN == 3            \* largest maxFailures a breaker is created with
MaxTimeout == 2      \* largest resetTimeout (in clock ticks)
MaxNow == 5          \* the clock stops advancing here
MaxHist == 7         \* guarded calls issued in the sequential harness
NumThreads == 2      \* threads sharing one breaker in the concurrent harness
ConcMaxN == 2        \* largest maxFailures in the concurrent harness
ConcMaxTimeout == 1  \* largest resetTimeout in the concurrent harness
ConcMaxNow == 2      \* the clock of the concurrent harness stops here
MaxViews == 2        \* contexts derived from context.Background() in one run
MaxWords == 3        \* words of an error message given to CategorizeError

\* --------------------------------------------------------------- constants
StateClosed == "Closed"
StateOpen == "Open"
StateHalfOpen == "HalfOpen"
States == {StateClosed, StateOpen, StateHalfOpen}

Nil == "nil"
ErrCircuitOpen == "circuit breaker is open"
TestErr == "test error"
FnErrs == {Nil, TestErr}
NoResult == "none"

\* successes needed in half-open before the breaker closes
CloseThreshold == 2

NoHolder == 0
Threads == 1..NumThreads
SeqThread == 1

VARIABLES
  cb,        \* the CircuitBreaker struct (all fields but mu)
  mu,        \* cb.mu: the thread holding the mutex, or NoHolder
  now,       \* the clock read by time.Now() / time.Since()
  pc,        \* per thread: where it stands in its current operation
  op,        \* per thread: the operation it is executing
  ret,       \* per thread: what its last finished operation returned
  called,    \* per thread: the wrapped fn of its current Call was invoked
  fnRes,     \* per thread: what the wrapped fn of its current Call returned
  hist,      \* sequential harness: outcomes of the finished Calls, in order
  seq,       \* concurrent harness: the breaker as a sequential run of the
             \* finished operations, in the order they finished, leaves it
  enterTime, \* concurrent harness: per thread, the clock when its Call entered
  seqOK,     \* concurrent harness: every result so far is the sequential one
  asyncTracking,  \* Client.asyncTracking
  hasCB,     \* Client.circuitBreaker != nil
  call,      \* per caller: its Trace*Request call (inputs, position, result)
  job,       \* per thread or goroutine: the doTrack it runs (arguments, request)
  SaveCalls, \* MockStorageAdapter.SaveCalls, grouped by traced call
  ErrorCalls,\* MockLogger.ErrorCalls, grouped by traced call
  uuids,     \* how many uuid.New() values have been handed out
  cancelled, \* the callers whose context has been cancelled
  views,     \* the contexts derived so far: valueCtx nodes (parent, key, val)
  errIn,     \* the error given to CategorizeError
  errType    \* the ErrorType CategorizeError returned for it

core == <<cb, mu, now, pc, op, ret, called, fnRes>>
seqGhost == <<seq, enterTime, seqOK>>
\* what a Trace*Request call and its tracking leave as they are
setup == <<views, asyncTracking, hasCB, cancelled, errIn, errType>>
clientVars ==
  <<asyncTracking, hasCB, call, job, SaveCalls, ErrorCalls, uuids, cancelled,
    views, errIn, errType>>
vars == <<cb, mu, now, pc, op, ret, called, fnRes, hist, seq, enterTime, seqOK,
          asyncTracking, hasCB, call, job, SaveCalls, ErrorCalls, uuids,
          cancelled, views, errIn, errType>>

\* ---------------------------------------------------------- circuit breaker
\* the zero time.Time of a fresh breaker lies before every reset timeout
ZeroTime == 0 - (MaxTimeout + MaxNow + 1)

NewCircuitBreaker(maxFailures, resetTimeout) ==
  [maxFailures |-> maxFailures, resetTimeout |-> resetTimeout,
   state |-> StateClosed, failures |-> 0, lastFailTime |-> ZeroTime,
   successCount |-> 0]

\* mutant: the timeout never counts as elapsed
TimedOut_never(c, t) == FALSE

\* mutant: the timeout counts as elapsed one tick early
TimedOut_ge(c, t) == (t - c.lastFailTime) >= c.resetTimeout

\* time.Since(cb.lastFailTime) > cb.resetTimeout
TimedOut(c, t) == (t - c.lastFailTime) > c.resetTimeout

\* mutant: entering half-open keeps the successes counted before
toHalfOpen_keepCount(c) == [c EXCEPT !.state = StateHalfOpen]

\* mutant: entering half-open also forgets the failures
toHalfOpen_resetFailures(c) ==
  [c EXCEPT !.state = StateHalfOpen, !.successCount = 0, !.failures = 0]

\* cb.state = StateHalfOpen; cb.successCount = 0
toHalfOpen(c) == [c EXCEPT !.state = StateHalfOpen, !.successCount = 0]

\* mutant: a failed trial call keeps the time of the failure that opened
recordFailure_keepTime(c, t) ==
  LET c1 == [c EXCEPT !.failures = @ + 1,
                      !.lastFailTime = IF c.state = StateHalfOpen THEN @ ELSE t]
  IN  IF c1.failures >= c1.maxFailures
        THEN [c1 EXCEPT !.state = StateOpen]
        ELSE c1

\* mutant: the threshold test is strict
recordFailure_gt(c, t) ==
  LET c1 == [c EXCEPT !.failures = @ + 1, !.lastFailTime = t]
  IN  IF c1.failures > c1.maxFailures
        THEN [c1 EXCEPT !.state = StateOpen]
        ELSE c1

recordFailure(c, t) ==
  LET c1 == [c EXCEPT !.failures = @ + 1, !.lastFailTime = t]
  IN  IF c1.failures >= c1.maxFailures
        THEN [c1 EXCEPT !.state = StateOpen]
        ELSE c1

\* mutant: the first trial success already forgets the failures
recordSuccess_forgiveEarly(c) ==
  IF c.state = StateHalfOpen
    THEN LET c1 == [c EXCEPT !.successCount = @ + 1, !.failures = 0]
         IN  IF c1.successCount >= CloseThreshold
               THEN [c1 EXCEPT !.state = StateClosed]
               ELSE c1
    ELSE IF c.state = StateClosed
           THEN [c EXCEPT !.failures = 0]
           ELSE c

\* mutant: closing keeps the old failure count
recordSuccess_noReset(c) ==
  IF c.state = StateHalfOpen
    THEN LET c1 == [c EXCEPT !.successCount = @ + 1]
         IN  IF c1.successCount >= CloseThreshold
               THEN [c1 EXCEPT !.state = StateClosed]
               ELSE c1
    ELSE IF c.state = StateClosed
           THEN [c EXCEPT !.failures = 0]
           ELSE c

\* mutant: a success while closed forgives nothing
recordSuccess_noForgive(c) ==
  IF c.state = StateHalfOpen
    THEN LET c1 == [c EXCEPT !.successCount = @ + 1]
         IN  IF c1.successCount >= CloseThreshold
               THEN [c1 EXCEPT !.state = StateClosed, !.failures = 0]
               ELSE c1
    ELSE c

recordSuccess(c) ==
  IF c.state = StateHalfOpen
    THEN LET c1 == [c EXCEPT !.successCount = @ + 1]
         IN  IF c1.successCount >= CloseThreshold
               THEN [c1 EXCEPT !.state = StateClosed, !.failures = 0]
               ELSE c1
    ELSE IF c.state = StateClosed
           THEN [c EXCEPT !.failures = 0]
           ELSE c

\* Call's check on entry: TRUE when the call is refused with ErrCircuitOpen
Refused(c, t) == c.state = StateOpen /\ ~TimedOut(c, t)

\* mutant: an admitted call leaves an open breaker open
Admit_stayOpen(c, t) == c

\* Call's state after the entry check when the call is admitted
Admit(c, t) == IF c.state = StateOpen THEN toHalfOpen(c) ELSE c

\* the state update after fn returned err
Record(c, err, t) == IF err # Nil THEN recordFailure(c, t) ELSE recordSuccess(c)

\* GetState's lazy transition
Probe(c, t) == IF c.state = StateOpen /\ TimedOut(c, t) THEN toHalfOpen(c) ELSE c

\* ------------------------------------------------------------------ actions
Ready(a) == pc[a] \in {"idle", "done"}

\* a thread issues cb.Call(fn) and arrives at cb.mu.Lock()
BeginCall(a) ==
  /\ Ready(a)
  /\ pc' = [pc EXCEPT ![a] = "Call"]
  /\ op' = [op EXCEPT ![a] = "Call"]
  /\ called' = [called EXCEPT ![a] = FALSE]
  /\ fnRes' = [fnRes EXCEPT ![a] = NoResult]
  /\ ret' = [ret EXCEPT ![a] = NoResult]
  /\ UNCHANGED <<cb, mu, now>>

\* mutant: a refused call counts as a failure of its own time
CallRefuse_touch(a) ==
  /\ pc[a] = "Call"
  /\ mu = NoHolder
  /\ Refused(cb, now)
  /\ cb' = [cb EXCEPT !.lastFailTime = now]
  /\ pc' = [pc EXCEPT ![a] = "done"]
  /\ ret' = [ret EXCEPT ![a] = ErrCircuitOpen]
  /\ UNCHANGED <<mu, now, op, called, fnRes>>

\* Lock, entry check: refuse (unlock, return ErrCircuitOpen) ...
CallRefuse(a) ==
  /\ pc[a] = "Call"
  /\ mu = NoHolder
  /\ Refused(cb, now)
  /\ pc' = [pc EXCEPT ![a] = "done"]
  /\ ret' = [ret EXCEPT ![a] = ErrCircuitOpen]
  /\ UNCHANGED <<cb, mu, now, op, called, fnRes>>

\* mutant: the admitted call does not wait for the lock
CallAdmit_nolock(a) ==
  /\ pc[a] = "Call"
  /\ ~Refused(cb, now)
  /\ mu' = a
  /\ cb' = Admit(cb, now)
  /\ pc' = [pc EXCEPT ![a] = "fn"]
  /\ called' = [called EXCEPT ![a] = TRUE]
  /\ UNCHANGED <<now, op, ret, fnRes>>

\* ... or admit: keep the lock and invoke fn
CallAdmit(a) ==
  /\ pc[a] = "Call"
  /\ mu = NoHolder
  /\ ~Refused(cb, now)
  /\ mu' = a
  /\ cb' = Admit(cb, now)
  /\ pc' = [pc EXCEPT ![a] = "fn"]
  /\ called' = [called EXCEPT ![a] = TRUE]
  /\ UNCHANGED <<now, op, ret, fnRes>>

\* mutant: Call returns without unlocking
CallReturn_noUnlock(a, err) ==
  /\ pc[a] = "fn"
  /\ fnRes' = [fnRes EXCEPT ![a] = err]
  /\ cb' = Record(cb, fnRes'[a], now)
  /\ mu' = mu
  /\ pc' = [pc EXCEPT ![a] = "done"]
  /\ ret' = [ret EXCEPT ![a] = fnRes'[a]]
  /\ UNCHANGED <<now, op, called>>

\* fn returns err: record the outcome, unlock, return err
CallReturn(a, err) ==
  /\ pc[a] = "fn"
  /\ fnRes' = [fnRes EXCEPT ![a] = err]
  /\ cb' = Record(cb, fnRes'[a], now)
  /\ mu' = NoHolder
  /\ pc' = [pc EXCEPT ![a] = "done"]
  /\ ret' = [ret EXCEPT ![a] = fnRes'[a]]
  /\ UNCHANGED <<now, op, called>>

\* the bool returned by IsOpen, as a value of ret
Bool(b) == IF b THEN "true" ELSE "false"

\* a thread issues cb.GetState() (isOpen = FALSE) or cb.IsOpen() (TRUE)
BeginGetState(a, isOpen) ==
  /\ Ready(a)
  /\ pc' = [pc EXCEPT ![a] = "GetState"]
  /\ op' = [op EXCEPT ![a] = IF isOpen THEN "IsOpen" ELSE "GetState"]
  /\ called' = [called EXCEPT ![a] = FALSE]
  /\ fnRes' = [fnRes EXCEPT ![a] = NoResult]
  /\ ret' = [ret EXCEPT ![a] = NoResult]
  /\ UNCHANGED <<cb, mu, now>>

\* Lock, lazy transition, unlock, return
GetState(a) ==
  /\ pc[a] = "GetState"
  /\ mu = NoHolder
  /\ cb' = Probe(cb, now)
  /\ pc' = [pc EXCEPT ![a] = "done"]
  /\ ret' = [ret EXCEPT ![a] = IF op[a] = "IsOpen"
                                 THEN Bool(cb'.state = StateOpen)
                                 ELSE cb'.state]
  /\ UNCHANGED <<mu, now, op, called, fnRes>>

\* mutant: a background timer moves an open breaker to half-open
Tick_timer(limit) ==
  /\ now < limit
  /\ now' = now + 1
  /\ cb' = Probe(cb, now')
  /\ UNCHANGED <<mu, pc, op, ret, called, fnRes>>

Tick(limit) ==
  /\ now < limit
  /\ now' = now + 1
  /\ UNCHANGED <<cb, mu, pc, op, ret, called, fnRes>>

\* ------------------------------------------------------------------ client
ProviderOpenAI == "openai"
ProviderAnthropic == "anthropic"
ProviderGoogle == "google"
ProviderMistral == "mistral"
Providers == {ProviderOpenAI, ProviderAnthropic, ProviderMistral, ProviderGoogle}
\* the Trace*Request methods whose provider function returns a pointer
PointerProviders == {ProviderAnthropic, ProviderMistral, ProviderGoogle}
\* the Trace*Request methods that reject an empty model name
ModelCheckedProviders == {ProviderMistral, ProviderGoogle}

ErrorTypeNone == ""
ErrorTypeNetwork == "network"
ErrorTypeRateLimit == "rate_limit"
ErrorTypeAuthentication == "authentication"
ErrorTypeInvalidRequest == "invalid_request"
ErrorTypeTimeout == "timeout"
ErrorTypeServerError == "server_error"
ErrorTypeUnknown == "unknown"

\* Error messages are strings; the words of the messages the model uses
Words(msg) ==
  CASE msg = "API error: rate limit exceeded" -> <<"API", "error:", "rate", "limit", "exceeded">>
    [] msg = "504 Gateway Timeout" -> <<"504", "Gateway", "Timeout">>
    [] msg = "database connection failed" -> <<"database", "connection", "failed">>
    [] msg = "something went wrong" -> <<"something", "went", "wrong">>
    [] OTHER -> <<>>

\* strings.ToLower on one word
ToLower(w) ==
  CASE w = "API" -> "api"
    [] w = "Gateway" -> "gateway"
    [] w = "Timeout" -> "timeout"
    [] w = "Rate" -> "rate"
    [] w = "Unauthorized" -> "unauthorized"
    [] w = "BAD" -> "bad"
    [] OTHER -> w

\* strings.ToLower on a message given by its words
Lower(ws) == [i \in 1..Len(ws) |-> ToLower(ws[i])]

\* strings.Contains(errStr, kw) for a keyword given by its words
ContainsWords(errStr, kw) ==
  \E i \in 1..Len(errStr) :
    /\ i + Len(kw) - 1 <= Len(errStr)
    /\ \A j \in 1..Len(kw) : errStr[i + j - 1] = kw[j]

\* strings.Contains(strings.ToLower(msg), kw)
Contains(msg, kw) == ContainsWords(Lower(Words(msg)), kw)

ContainsAny(errStr, kws) == \E kw \in kws : ContainsWords(errStr, kw)

\* a classifier without the special case for 504
CategorizeErrStr_no504(errStr) ==
  IF ContainsAny(errStr, {<<"rate", "limit">>, <<"too", "many", "requests">>, <<"429">>})
    THEN ErrorTypeRateLimit
  ELSE IF ContainsAny(errStr, {<<"unauthorized">>, <<"authentication">>, <<"api", "key">>,
                               <<"401">>, <<"403">>, <<"forbidden">>})
    THEN ErrorTypeAuthentication
  ELSE IF ContainsAny(errStr, {<<"connection">>, <<"network">>, <<"dial", "tcp">>,
                               <<"dns">>, <<"no", "such", "host">>})
    THEN ErrorTypeNetwork
  ELSE IF ContainsAny(errStr, {<<"timeout">>, <<"deadline", "exceeded">>,
                               <<"context", "canceled">>})
    THEN ErrorTypeTimeout
  ELSE IF ContainsAny(errStr, {<<"invalid">>, <<"bad", "request">>, <<"400">>,
                               <<"malformed">>})
    THEN ErrorTypeInvalidRequest
  ELSE IF ContainsAny(errStr, {<<"500">>, <<"502">>, <<"503">>, <<"504">>,
                               <<"server", "error">>, <<"internal", "error">>})
    THEN ErrorTypeServerError
  ELSE ErrorTypeUnknown

\* a classifier that looks for the timeout keywords before the network ones
CategorizeErrStr_timeoutFirst(errStr) ==
  IF ContainsAny(errStr, {<<"rate", "limit">>, <<"too", "many", "requests">>, <<"429">>})
    THEN ErrorTypeRateLimit
  ELSE IF ContainsAny(errStr, {<<"unauthorized">>, <<"authentication">>, <<"api", "key">>,
                               <<"401">>, <<"403">>, <<"forbidden">>})
    THEN ErrorTypeAuthentication
  ELSE IF ContainsAny(errStr, {<<"timeout">>, <<"deadline", "exceeded">>,
                               <<"context", "canceled">>})
    THEN IF ContainsWords(errStr, <<"504">>) THEN ErrorTypeServerError ELSE ErrorTypeTimeout
  ELSE IF ContainsAny(errStr, {<<"connection">>, <<"network">>, <<"dial", "tcp">>,
                               <<"dns">>, <<"no", "such", "host">>})
    THEN ErrorTypeNetwork
  ELSE IF ContainsAny(errStr, {<<"invalid">>, <<"bad", "request">>, <<"400">>,
                               <<"malformed">>})
    THEN ErrorTypeInvalidRequest
  ELSE IF ContainsAny(errStr, {<<"500">>, <<"502">>, <<"503">>, <<"504">>,
                               <<"server", "error">>, <<"internal", "error">>})
    THEN ErrorTypeServerError
  ELSE ErrorTypeUnknown

\* CategorizeError from errStr on: the lower-cased message of a non-nil error
CategorizeErrStr(errStr) ==
  IF ContainsAny(errStr, {<<"rate", "limit">>, <<"too", "many", "requests">>, <<"429">>})
    THEN ErrorTypeRateLimit
  ELSE IF ContainsAny(errStr, {<<"unauthorized">>, <<"authentication">>, <<"api", "key">>,
                               <<"401">>, <<"403">>, <<"forbidden">>})
    THEN ErrorTypeAuthentication
  ELSE IF ContainsAny(errStr, {<<"connection">>, <<"network">>, <<"dial", "tcp">>,
                               <<"dns">>, <<"no", "such", "host">>})
    THEN ErrorTypeNetwork
  ELSE IF ContainsAny(errStr, {<<"timeout">>, <<"deadline", "exceeded">>,
                               <<"context", "canceled">>})
    THEN IF ContainsWords(errStr, <<"504">>) THEN ErrorTypeServerError ELSE ErrorTypeTimeout
  ELSE IF ContainsAny(errStr, {<<"invalid">>, <<"bad", "request">>, <<"400">>,
                               <<"malformed">>})
    THEN ErrorTypeInvalidRequest
  ELSE IF ContainsAny(errStr, {<<"500">>, <<"502">>, <<"503">>, <<"504">>,
                               <<"server", "error">>, <<"internal", "error">>})
    THEN ErrorTypeServerError
  ELSE ErrorTypeUnknown

\* CategorizeError on a non-nil error with message msg
CategorizeError(msg) == CategorizeErrStr(Lower(Words(msg)))

\* an error value given by the words of its message, and the nil error
ErrorOf(ws) == [isNil |-> FALSE, words |-> ws]
NilError == [isNil |-> TRUE, words |-> <<>>]
\* CategorizeError on any error value
CategorizeErrorValue(err) ==
  IF err.isNil THEN ErrorTypeNone ELSE CategorizeErrStr(Lower(err.words))

\* no ErrorType returned yet
NotCategorized == "<not categorized>"
\* the runs that never call CategorizeError on its own
NoCategorize == errIn = NilError /\ errType = NotCategorized

\* ---- context values (context.go)
Absent == "<absent>"
StrVal(x) == [isInt |-> FALSE, s |-> x, n |-> 0]
IntVal(x) == [isInt |-> TRUE, s |-> "", n |-> x]
\* fmt.Sprintf("%v", value)
Sprint(v) == IF v.isInt THEN ToString(v.n) ELSE v.s

EmptyMap == [k \in {} |-> StrVal("")]
MapSet(m, key, v) == [k \in DOMAIN m \cup {key} |-> IF k = key THEN v ELSE m[k]]

\* the cancel scope of a context that is never cancelled
NoCancel == 0

\* context.Background()
Background ==
  [isNil |-> FALSE, traceID |-> Absent, userID |-> Absent, workflow |-> Absent,
   feature |-> Absent, hasDims |-> FALSE, dims |-> EmptyMap, cancel |-> NoCancel]

\* context.WithCancel(ctx), the cancel function being held by caller t
WithCancel(ctx, t) == [ctx EXCEPT !.cancel = t]
\* ctx.Done() is closed
Done(ctx) == ~ctx.isNil /\ ctx.cancel \in cancelled

\* context.WithValue on a non-nil parent ctx
WithTraceID(ctx, traceID) == [ctx EXCEPT !.traceID = traceID]
WithUserID(ctx, userID) == [ctx EXCEPT !.userID = userID]
WithWorkflow(ctx, workflow) == [ctx EXCEPT !.workflow = workflow]
WithFeature(ctx, feature) == [ctx EXCEPT !.feature = feature]
WithDimensions(ctx, dimensions) ==
  [ctx EXCEPT !.hasDims = TRUE, !.dims = dimensions]

\* uuid.New().String(): the k-th value handed out
UUID(k) == "uuid-" \o ToString(k)

\* a read that takes an empty trace id for a trace id
GetTraceIDFromContext_acceptEmpty(ctx, k) ==
  IF ~ctx.isNil /\ ctx.traceID # Absent
    THEN [id |-> ctx.traceID, fresh |-> FALSE]
    ELSE [id |-> UUID(k), fresh |-> TRUE]

\* GetTraceIDFromContext: the id, and whether a uuid was drawn for it
GetTraceIDFromContext(ctx, k) ==
  IF ~ctx.isNil /\ ctx.traceID # Absent /\ ctx.traceID # ""
    THEN [id |-> ctx.traceID, fresh |-> FALSE]
    ELSE [id |-> UUID(k), fresh |-> TRUE]

GetUserIDFromContext(ctx) ==
  IF ctx.isNil \/ ctx.userID = Absent THEN "" ELSE ctx.userID

\* a flattening that also lists the trace id
GetDimensionsFromContext_withTraceID(ctx) ==
  IF ctx.isNil THEN EmptyMap
  ELSE
    LET d0 == IF ctx.hasDims THEN ctx.dims ELSE EmptyMap
        d1 == IF GetUserIDFromContext(ctx) # ""
                THEN MapSet(d0, "user_id", StrVal(GetUserIDFromContext(ctx))) ELSE d0
        d2 == IF ctx.workflow # Absent /\ ctx.workflow # ""
                THEN MapSet(d1, "workflow", StrVal(ctx.workflow)) ELSE d1
        d3 == IF ctx.feature # Absent /\ ctx.feature # ""
                THEN MapSet(d2, "feature", StrVal(ctx.feature)) ELSE d2
        d4 == IF ctx.traceID # Absent /\ ctx.traceID # ""
                THEN MapSet(d3, "trace_id", StrVal(ctx.traceID)) ELSE d3
    IN  d4

\* a flattening that lets the custom map win over the individual values
GetDimensionsFromContext_customLast(ctx) ==
  IF ctx.isNil THEN EmptyMap
  ELSE
    LET d0 == IF ctx.hasDims THEN ctx.dims ELSE EmptyMap
        d1 == IF GetUserIDFromContext(ctx) # "" /\ "user_id" \notin DOMAIN d0
                THEN MapSet(d0, "user_id", StrVal(GetUserIDFromContext(ctx))) ELSE d0
        d2 == IF ctx.workflow # Absent /\ ctx.workflow # "" /\ "workflow" \notin DOMAIN d0
                THEN MapSet(d1, "workflow", StrVal(ctx.workflow)) ELSE d1
        d3 == IF ctx.feature # Absent /\ ctx.feature # "" /\ "feature" \notin DOMAIN d0
                THEN MapSet(d2, "feature", StrVal(ctx.feature)) ELSE d2
    IN  d3

GetDimensionsFromContext(ctx) ==
  IF ctx.isNil THEN EmptyMap
  ELSE
    LET d0 == IF ctx.hasDims THEN ctx.dims ELSE EmptyMap
        d1 == IF GetUserIDFromContext(ctx) # ""
                THEN MapSet(d0, "user_id", StrVal(GetUserIDFromContext(ctx))) ELSE d0
        d2 == IF ctx.workflow # Absent /\ ctx.workflow # ""
                THEN MapSet(d1, "workflow", StrVal(ctx.workflow)) ELSE d1
        d3 == IF ctx.feature # Absent /\ ctx.feature # ""
                THEN MapSet(d2, "feature", StrVal(ctx.feature)) ELSE d2
    IN  d3

\* ---- provider responses: nil pointer or a value with its usage fields
Response(isNil, hasUsage, p, c) ==
  [isNil |-> isNil, hasUsage |-> hasUsage, prompt |-> p, completion |-> c]
NilResponse == Response(TRUE, FALSE, 0, 0)
\* openai.ChatCompletionResponse{}
ZeroResponse == Response(FALSE, TRUE, 0, 0)

Usages == {<<0, 0>>, <<5, 10>>, <<0 - 10, 0 - 5>>, <<0 - 1, 5>>}
\* what a provider function of each kind can return as its response: a value
\* (Google: with or without UsageMetadata) or, for the pointer kinds, nil
Responses(kind) ==
  {Response(FALSE, TRUE, u[1], u[2]) : u \in Usages}
    \cup (IF kind \in PointerProviders THEN {NilResponse} ELSE {})
    \cup (IF kind = ProviderGoogle THEN {Response(FALSE, FALSE, 0, 0)} ELSE {})
AllResponses == UNION {Responses(kind) : kind \in Providers}

NoOutcome == [resp |-> NilResponse, err |-> NoResult]
\* the error of each Trace*Request for a nil provider function
ErrFnNil(kind) ==
  CASE kind = ProviderOpenAI -> "createChatCompletion function cannot be nil"
    [] kind = ProviderAnthropic -> "messageNew function cannot be nil"
    [] kind = ProviderMistral -> "chat function cannot be nil"
    [] kind = ProviderGoogle -> "generateContent function cannot be nil"
ErrModelEmpty == "model cannot be empty"

\* response.Usage / response.UsageMetadata is read through a nil pointer
Panics(kind, resp, err) ==
  kind \in PointerProviders /\ err = Nil /\ resp.isNil

\* the usage of the response taken whatever the error
ExtractUsage_ignoreErr(kind, resp, err) ==
  IF resp.isNil \/ ~resp.hasUsage THEN <<0, 0>>
  ELSE <<resp.prompt, resp.completion>>

\* the (inputTokens, outputTokens) each Trace*Request hands to track
ExtractUsage(kind, resp, err) ==
  IF err # Nil THEN <<0, 0>>
  ELSE IF kind = ProviderOpenAI
    THEN IF resp.prompt > 0 \/ resp.completion > 0
           THEN <<resp.prompt, resp.completion>> ELSE <<0, 0>>
  ELSE IF kind = ProviderGoogle
    THEN IF resp.hasUsage THEN <<resp.prompt, resp.completion>> ELSE <<0, 0>>
  ELSE <<resp.prompt, resp.completion>>

NoRequest == [ID |-> ""]
NoJob == [call |-> 0]

\* doTrack always runs with the caller's context
TrackArgs_callerCtx(t, ctx, provider, model, usage, apiErr, trackingContext) ==
  [call |-> t, ctx |-> call[t].ctx, provider |-> provider, model |-> model,
   inputTokens |-> usage[1], outputTokens |-> usage[2], apiErr |-> apiErr,
   trackingContext |-> trackingContext, request |-> NoRequest]

\* the dimensions read from the context doTrack runs with
TrackArgs_ctxDims(t, ctx, provider, model, usage, apiErr, trackingContext) ==
  [call |-> t, ctx |-> ctx, provider |-> provider, model |-> model,
   inputTokens |-> usage[1], outputTokens |-> usage[2], apiErr |-> apiErr,
   trackingContext |-> GetDimensionsFromContext(ctx), request |-> NoRequest]

\* the arguments track passes to doTrack
TrackArgs(t, ctx, provider, model, usage, apiErr, trackingContext) ==
  [call |-> t, ctx |-> ctx, provider |-> provider, model |-> model,
   inputTokens |-> usage[1], outputTokens |-> usage[2], apiErr |-> apiErr,
   trackingContext |-> trackingContext, request |-> NoRequest]

\* a token count passed on as it came
ClampTokens_none(n) == n

\* trackRequest: a negative token count becomes 0
ClampTokens(n) == IF n < 0 THEN 0 ELSE n

\* status 500 only for an error with a message
StatusCode_byMessage(apiErr) == IF apiErr # Nil /\ apiErr # "" THEN 500 ELSE 200

\* trackRequest: StatusCode is 200, and 500 when err != nil
StatusCode(apiErr) == IF apiErr # Nil THEN 500 ELSE 200

\* trackRequest up to the save: the Request it builds (time fields left out)
\* and the number of uuids drawn
BuildRequest(args, k) ==
  LET trace == GetTraceIDFromContext(args.ctx, k + 2)
      errMsg == IF args.apiErr # Nil THEN args.apiErr ELSE ""
  IN  [request |->
         [ID |-> UUID(k + 1),
          TraceID |-> trace.id,
          Provider |-> args.provider,
          Model |-> args.model,
          InputTokens |-> ClampTokens(args.inputTokens),
          OutputTokens |-> ClampTokens(args.outputTokens),
          StatusCode |-> StatusCode(args.apiErr),
          Error |-> errMsg,
          ErrorType |-> IF errMsg # "" THEN CategorizeError(errMsg) ELSE ErrorTypeNone,
          Dimensions |-> {[Key |-> key, Value |-> Sprint(args.trackingContext[key])] :
                            key \in DOMAIN args.trackingContext}],
       uuids |-> IF trace.fresh THEN k + 2 ELSE k + 1]

\* the fields doTrack passes to logger.Error
LogCall(trackErr, args) ==
  [Message |-> "Failed to track request", error |-> trackErr,
   provider |-> args.provider, model |-> args.model,
   input_tokens |-> args.inputTokens, output_tokens |-> args.outputTokens]

TraceCaller == 1
Callers == {TraceCaller}
\* the goroutine that track starts for the call of caller t
GoroutineOf(t) == t + 1

NewCall ==
  [status |-> "idle", kind |-> "", model |-> "", ctx |-> Background,
   fnNil |-> FALSE, fnCalls |-> 0, provRes |-> NoOutcome, result |-> NoOutcome]

\* ---- Trace*Request
\* Trace*Request without the check of the model name
TraceBegin_noModelCheck(t, kind, fnNil, model, ctx) ==
  /\ call[t].status = "idle"
  /\ LET c == [call[t] EXCEPT !.kind = kind, !.model = model, !.ctx = ctx,
                              !.fnNil = fnNil]
     IN  call' = [call EXCEPT ![t] =
           IF fnNil
             THEN [c EXCEPT !.status = "returned",
                            !.result = [resp |-> IF kind = ProviderOpenAI
                                                   THEN ZeroResponse ELSE NilResponse,
                                        err |-> ErrFnNil(kind)]]
           ELSE [c EXCEPT !.status = "provider", !.fnCalls = @ + 1]]
  /\ UNCHANGED <<core, setup, job, SaveCalls,
                 ErrorCalls, uuids>>
  /\ UNCHANGED <<hist, seqGhost>>

\* the call up to the provider function: validation, then the invocation
TraceBegin(t, kind, fnNil, model, ctx) ==
  /\ call[t].status = "idle"
  /\ LET c == [call[t] EXCEPT !.kind = kind, !.model = model, !.ctx = ctx,
                              !.fnNil = fnNil]
     IN  call' = [call EXCEPT ![t] =
           IF fnNil
             THEN [c EXCEPT !.status = "returned",
                            !.result = [resp |-> IF kind = ProviderOpenAI
                                                   THEN ZeroResponse ELSE NilResponse,
                                        err |-> ErrFnNil(kind)]]
           ELSE IF kind \in ModelCheckedProviders /\ model = ""
             THEN [c EXCEPT !.status = "returned",
                            !.result = [resp |-> NilResponse, err |-> ErrModelEmpty]]
           ELSE [c EXCEPT !.status = "provider", !.fnCalls = @ + 1]]
  /\ UNCHANGED <<core, setup, job, SaveCalls,
                 ErrorCalls, uuids>>
  /\ UNCHANGED <<hist, seqGhost>>

\* doTrack -> trackRequest on thread or goroutine a: build the request, then
\* arrive at cb.mu.Lock() (breaker configured) or invoke storage.Save
StartTrack(a, args) ==
  LET built == BuildRequest(args, uuids)
      j == [args EXCEPT !.request = built.request]
  IN  /\ uuids' = built.uuids
      /\ job' = [job EXCEPT ![a] = j]
      /\ IF hasCB
           THEN /\ BeginCall(a)
                /\ UNCHANGED SaveCalls
           ELSE /\ Ready(a)
                /\ pc' = [pc EXCEPT ![a] = "Save"]
                /\ op' = [op EXCEPT ![a] = "Save"]
                /\ called' = [called EXCEPT ![a] = TRUE]
                /\ fnRes' = [fnRes EXCEPT ![a] = NoResult]
                /\ ret' = [ret EXCEPT ![a] = NoResult]
                /\ SaveCalls' = [SaveCalls EXCEPT ![j.call] =
                                   Append(@, [Ctx |-> j.ctx, Request |-> j.request])]
                /\ UNCHANGED <<cb, mu, now>>

\* track starts a goroutine for doTrack whatever the tracking mode
Detached_always == TRUE

\* track runs doTrack in a goroutine of its own (c.asyncTracking)
Detached == asyncTracking

\* the provider function returns (resp, err): usage extraction, dimensions,
\* track; asynchronous tracking starts the goroutine and returns at once
ProviderReturn(t, resp, err) ==
  /\ call[t].status = "provider"
  /\ resp \in Responses(call[t].kind)
  /\ LET c == call[t]
         out == [resp |-> resp, err |-> err]
         usage == ExtractUsage(c.kind, resp, err)
         trackingContext == GetDimensionsFromContext(c.ctx)
     IN  IF Panics(c.kind, resp, err)
           THEN /\ call' = [call EXCEPT ![t] =
                              [c EXCEPT !.status = "panicked", !.provRes = out]]
                /\ UNCHANGED <<core, job, SaveCalls, ErrorCalls, uuids>>
         ELSE IF Detached
           THEN /\ call' = [call EXCEPT ![t] =
                              [c EXCEPT !.status = "returned", !.provRes = out,
                                        !.result = out]]
                /\ job' = [job EXCEPT ![GoroutineOf(t)] =
                             TrackArgs(t, Background, c.kind, c.model, usage, err,
                                       trackingContext)]
                /\ UNCHANGED <<core, SaveCalls, ErrorCalls, uuids>>
         ELSE   /\ call' = [call EXCEPT ![t] =
                              [c EXCEPT !.status = "tracking", !.provRes = out]]
                /\ StartTrack(t, TrackArgs(t, c.ctx, c.kind, c.model, usage, err,
                                           trackingContext))
                /\ UNCHANGED ErrorCalls
  /\ UNCHANGED <<setup, hist, seqGhost>>

\* the goroutine started by track runs doTrack
GoStart(g) ==
  /\ job[g] # NoJob /\ job[g].request = NoRequest
  /\ StartTrack(g, job[g])
  /\ UNCHANGED <<setup, call, ErrorCalls, hist, seqGhost>>

\* doTrack returning trackErr to its caller instead of logging it
FinishTrack_propagate(a) ==
  /\ UNCHANGED ErrorCalls
  /\ call' = IF a \in Callers
               THEN [call EXCEPT ![a] =
                       [@ EXCEPT !.status = "returned",
                                 !.result = IF ret'[a] # Nil
                                              THEN [call[a].provRes EXCEPT
                                                      !.err = ret'[a]]
                                              ELSE call[a].provRes]]
               ELSE call

\* doTrack after trackRequest returned trackErr = ret'[a]: log a failure;
\* synchronous tracking then returns the provider's response and error
FinishTrack(a) ==
  /\ ErrorCalls' = IF ret'[a] # Nil
                     THEN [ErrorCalls EXCEPT ![job[a].call] =
                             Append(@, LogCall(ret'[a], job[a]))]
                     ELSE ErrorCalls
  /\ call' = IF a \in Callers
               THEN [call EXCEPT ![a] = [@ EXCEPT !.status = "returned",
                                                  !.result = call[a].provRes]]
               ELSE call

Tracking(a) == job[a] # NoJob /\ job[a].request # NoRequest

\* circuitBreaker.Call refuses: trackErr = ErrCircuitOpen
TrackRefused(a) ==
  /\ Tracking(a)
  /\ CallRefuse(a)
  /\ FinishTrack(a)
  /\ UNCHANGED <<setup, job, SaveCalls, uuids, hist, seqGhost>>

\* circuitBreaker.Call admits: storage.Save is invoked under the lock
TrackAdmitted(a) ==
  /\ Tracking(a)
  /\ CallAdmit(a)
  /\ SaveCalls' = [SaveCalls EXCEPT ![job[a].call] =
                     Append(@, [Ctx |-> job[a].ctx, Request |-> job[a].request])]
  /\ UNCHANGED <<setup, call, job, ErrorCalls, uuids, hist, seqGhost>>

\* mutant: the breaker is told about the provider's error as well
GuardedSaveReturn_countProvider(a, err) ==
  /\ Tracking(a)
  /\ pc[a] = "fn"
  /\ fnRes' = [fnRes EXCEPT ![a] = err]
  /\ cb' = Record(cb, IF job[a].apiErr # Nil THEN job[a].apiErr ELSE err, now)
  /\ mu' = NoHolder
  /\ pc' = [pc EXCEPT ![a] = "done"]
  /\ ret' = [ret EXCEPT ![a] = fnRes'[a]]
  /\ UNCHANGED <<now, op, called>>
  /\ FinishTrack(a)
  /\ UNCHANGED <<setup, job, SaveCalls, uuids, hist, seqGhost>>

\* storage.Save returns err inside circuitBreaker.Call
GuardedSaveReturn(a, err) ==
  /\ Tracking(a)
  /\ CallReturn(a, err)
  /\ FinishTrack(a)
  /\ UNCHANGED <<setup, job, SaveCalls, uuids, hist, seqGhost>>

\* storage.Save returns err, no breaker configured
SaveReturn(a, err) ==
  /\ Tracking(a)
  /\ pc[a] = "Save"
  /\ fnRes' = [fnRes EXCEPT ![a] = err]
  /\ ret' = [ret EXCEPT ![a] = fnRes'[a]]
  /\ pc' = [pc EXCEPT ![a] = "done"]
  /\ FinishTrack(a)
  /\ UNCHANGED <<cb, mu, now, op, called>>
  /\ UNCHANGED <<setup, job, SaveCalls, uuids, hist, seqGhost>>

\* caller t cancels its context, at any time
Cancel(t) ==
  /\ t \notin cancelled
  /\ cancelled' = cancelled \cup {t}
  /\ UNCHANGED <<core, hist, seqGhost, views, asyncTracking, hasCB, call, job,
                 SaveCalls, ErrorCalls, uuids, errIn, errType>>

InitNoClient ==
  /\ asyncTracking = FALSE
  /\ hasCB = TRUE
  /\ call = [t \in Callers |-> NewCall]
  /\ job = [a \in Threads |-> NoJob]
  /\ SaveCalls = [t \in Callers |-> <<>>]
  /\ ErrorCalls = [t \in Callers |-> <<>>]
  /\ uuids = 0
  /\ cancelled = {}
  /\ views = <<>>
  /\ NoCategorize

\* -------------------------------------------------- sequential harness
Outcome(e) == IF e = Nil THEN "ok" ELSE IF e = ErrCircuitOpen THEN "refused" ELSE "fail"

\* hist gains the outcome of a Call in the step where it returns
RecordHist ==
  hist' = IF pc[SeqThread] \in {"Call", "fn"} /\ pc'[SeqThread] = "done"
            THEN Append(hist, Outcome(ret'[SeqThread]))
            ELSE hist

InitThreads ==
  /\ mu = NoHolder
  /\ now = 0
  /\ pc = [a \in Threads |-> "idle"]
  /\ op = [a \in Threads |-> "none"]
  /\ ret = [a \in Threads |-> NoResult]
  /\ called = [a \in Threads |-> FALSE]
  /\ fnRes = [a \in Threads |-> NoResult]

InitHarness ==
  /\ hist = <<>>
  /\ seq = cb /\ enterTime = [a \in Threads |-> 0] /\ seqOK = TRUE

InitSeq ==
  /\ cb \in {NewCircuitBreaker(n, r) : n \in 1..MaxN, r \in 1..MaxTimeout}
  /\ InitThreads
  /\ InitHarness
  /\ InitNoClient

SeqBeginCall ==
  /\ Len(hist) < MaxHist
  /\ BeginCall(SeqThread) /\ RecordHist /\ UNCHANGED <<seqGhost, clientVars>>
SeqCallRefuse == CallRefuse(SeqThread) /\ RecordHist /\ UNCHANGED <<seqGhost, clientVars>>
SeqCallAdmit == CallAdmit(SeqThread) /\ RecordHist /\ UNCHANGED <<seqGhost, clientVars>>
SeqCallReturn ==
  \E err \in FnErrs :
    CallReturn(SeqThread, err) /\ RecordHist /\ UNCHANGED <<seqGhost, clientVars>>
SeqBeginGetState ==
  \E b \in BOOLEAN :
    BeginGetState(SeqThread, b) /\ RecordHist /\ UNCHANGED <<seqGhost, clientVars>>
SeqGetState == GetState(SeqThread) /\ RecordHist /\ UNCHANGED <<seqGhost, clientVars>>
SeqTick == Tick(MaxNow) /\ RecordHist /\ UNCHANGED <<seqGhost, clientVars>>

NextSeq ==
  \/ SeqBeginCall
  \/ SeqCallRefuse
  \/ SeqCallAdmit
  \/ SeqCallReturn
  \/ SeqBeginGetState
  \/ SeqGetState
  \/ SeqTick

SpecSeq == InitSeq /\ [][NextSeq]_vars

\* -------------------------------------------------- concurrent harness
\* what one Call, run alone on breaker c, leaves: entry check at te, fn
\* returning err at tr
SeqCall(c, te, err, tr) ==
  IF Refused(c, te) THEN c ELSE Record(Admit(c, te), err, tr)

\* seq follows the operations in the order in which they finish
RecordSeq(a) ==
  /\ enterTime' = IF pc[a] = "Call" /\ pc'[a] = "fn"
                    THEN [enterTime EXCEPT ![a] = now]
                    ELSE IF pc[a] = "fn" /\ pc'[a] = "done"
                           THEN [enterTime EXCEPT ![a] = 0]
                           ELSE enterTime
  /\ seq' = IF pc[a] = "fn" /\ pc'[a] = "done"
              THEN SeqCall(seq, enterTime[a], ret'[a], now)
              ELSE IF pc[a] = "GetState" /\ pc'[a] = "done"
                     THEN Probe(seq, now)
                     ELSE seq
  /\ seqOK' = (seqOK /\
       IF pc[a] = "Call" /\ pc'[a] = "done"
         THEN Refused(seq, now)
         ELSE IF pc[a] = "fn" /\ pc'[a] = "done"
                THEN ~Refused(seq, enterTime[a])
                ELSE IF pc[a] = "GetState" /\ pc'[a] = "done"
                       THEN ret'[a] = IF op[a] = "IsOpen"
                                        THEN Bool(seq'.state = StateOpen)
                                        ELSE seq'.state
                       ELSE TRUE)

\* the breaker after k failed Calls made one after the other at time 0
RECURSIVE AfterFails(_, _)
AfterFails(c, k) ==
  IF k = 0 THEN c ELSE SeqCall(AfterFails(c, k - 1), 0, TestErr, 0)

\* the threads start on a breaker that a sequential caller has already used:
\* k failed Calls at time 0, for every k up to the threshold
InitConc ==
  /\ cb \in {AfterFails(NewCircuitBreaker(n, r), k) :
              n \in 1..ConcMaxN, r \in 0..ConcMaxTimeout, k \in 0..ConcMaxN}
  /\ cb.failures <= cb.maxFailures
  /\ InitThreads
  /\ InitHarness
  /\ InitNoClient

\* every thread issues one operation, as the goroutines of the test do
Issue(a) == pc[a] = "idle"

ConcBeginCall(a) ==
  Issue(a) /\ BeginCall(a) /\ RecordSeq(a) /\ UNCHANGED <<hist, clientVars>>
ConcCallRefuse(a) ==
  CallRefuse(a) /\ RecordSeq(a) /\ UNCHANGED <<hist, clientVars>>
ConcCallAdmit(a) ==
  CallAdmit(a) /\ RecordSeq(a) /\ UNCHANGED <<hist, clientVars>>
ConcCallReturn(a) ==
  \E err \in FnErrs :
    CallReturn(a, err) /\ RecordSeq(a) /\ UNCHANGED <<hist, clientVars>>
ConcBeginGetState(a) ==
  \E b \in BOOLEAN :
    Issue(a) /\ BeginGetState(a, b) /\ RecordSeq(a) /\ UNCHANGED <<hist, clientVars>>
ConcGetState(a) ==
  GetState(a) /\ RecordSeq(a) /\ UNCHANGED <<hist, clientVars>>
ConcTick == Tick(ConcMaxNow) /\ UNCHANGED <<hist, seqGhost, clientVars>>

NextConc ==
  \/ \E a \in Threads : ConcBeginCall(a)
  \/ \E a \in Threads : ConcCallRefuse(a)
  \/ \E a \in Threads : ConcCallAdmit(a)
  \/ \E a \in Threads : ConcCallReturn(a)
  \/ \E a \in Threads : ConcBeginGetState(a)
  \/ \E a \in Threads : ConcGetState(a)
  \/ ConcTick

\* Every goroutine keeps being scheduled: the wrapped fn terminates and a
\* Lock that stays possible is taken (weak fairness on each thread's steps
\* inside its operation).  Each thread issues one operation, so a waiting
\* Lock is not overtaken for ever.
FairConc ==
  \A a \in Threads :
    WF_vars(ConcCallReturn(a) \/ ConcCallRefuse(a) \/ ConcCallAdmit(a)
              \/ ConcGetState(a))

SpecConc == InitConc /\ [][NextConc]_vars /\ FairConc

\* ---------------------------------------------------- recovery harness
\* the storage behind the wrapped fn fails only before this time; the clock
\* runs on long enough for the longest reset timeout to elapse after it
HealthyFrom == MaxNow - MaxTimeout
Healthy == now >= HealthyFrom

RecBeginCall == BeginCall(SeqThread) /\ UNCHANGED <<hist, seqGhost, clientVars>>
RecCallRefuse == CallRefuse(SeqThread) /\ UNCHANGED <<hist, seqGhost, clientVars>>
RecCallAdmit == CallAdmit(SeqThread) /\ UNCHANGED <<hist, seqGhost, clientVars>>
RecCallReturn ==
  \E err \in FnErrs :
    /\ (err # Nil => ~Healthy)
    /\ CallReturn(SeqThread, err)
    /\ UNCHANGED <<hist, seqGhost, clientVars>>
RecBeginGetState ==
  \E b \in BOOLEAN :
    BeginGetState(SeqThread, b) /\ UNCHANGED <<hist, seqGhost, clientVars>>
RecGetState == GetState(SeqThread) /\ UNCHANGED <<hist, seqGhost, clientVars>>
RecTick == Tick(MaxNow) /\ UNCHANGED <<hist, seqGhost, clientVars>>

NextRec ==
  \/ RecBeginCall
  \/ RecCallRefuse
  \/ RecCallAdmit
  \/ RecCallReturn
  \/ RecBeginGetState
  \/ RecGetState
  \/ RecTick

\* time keeps advancing, guarded calls keep being issued (however many
\* GetState calls come in between), and an operation that was issued runs
\* to its end
FairRec ==
  /\ WF_vars(RecTick)
  /\ SF_vars(RecBeginCall)
  /\ WF_vars(RecCallRefuse \/ RecCallAdmit \/ RecCallReturn \/ RecGetState)

SpecRec == InitSeq /\ [][NextRec]_vars /\ FairRec

\* ------------------------------------------------------- traced calls
NilCtx == [Background EXCEPT !.isNil = TRUE]
\* the caller's own cancellable context
CallerCtx == WithCancel(Background, TraceCaller)
TracedCtx == WithTraceID(CallerCtx, "trace-123")
FullCtx ==
  WithDimensions(
    WithFeature(WithWorkflow(WithUserID(TracedCtx, "user-1"), "chat"), "summarize"),
    [k \in {"experiment", "retries"} |->
       IF k = "experiment" THEN StrVal("A") ELSE IntVal(3)])
Contexts == {NilCtx, Background, TracedCtx, FullCtx}
Models == {"", "gpt-4"}
ProviderErrs == {Nil, "", "API error: rate limit exceeded", "504 Gateway Timeout"}
SaveErrs == {Nil, "database connection failed"}

\* one Trace*Request call on a client whose breaker (when configured) has
\* seen k failed saves; tracking is synchronous or asynchronous
InitTrace ==
  /\ asyncTracking \in BOOLEAN
  /\ hasCB \in BOOLEAN
  /\ cb \in {AfterFails(NewCircuitBreaker(n, r), k) :
              n \in 1..ConcMaxN, r \in 0..ConcMaxTimeout, k \in 0..ConcMaxN}
  /\ cb.failures <= cb.maxFailures
  /\ (~hasCB => cb = NewCircuitBreaker(1, 0))
  /\ InitThreads
  /\ InitHarness
  /\ call = [t \in Callers |-> NewCall]
  /\ job = [a \in Threads |-> NoJob]
  /\ SaveCalls = [t \in Callers |-> <<>>]
  /\ ErrorCalls = [t \in Callers |-> <<>>]
  /\ uuids = 0
  /\ cancelled = {}
  /\ views = <<>>
  /\ NoCategorize

TraceTick == Tick(ConcMaxNow) /\ UNCHANGED <<hist, seqGhost, clientVars>>

NextTrace ==
  \/ \E t \in Callers, kind \in Providers, fnNil \in BOOLEAN, model \in Models,
        ctx \in Contexts : TraceBegin(t, kind, fnNil, model, ctx)
  \/ \E t \in Callers, resp \in AllResponses, err \in ProviderErrs :
       ProviderReturn(t, resp, err)
  \/ \E t \in Callers : GoStart(GoroutineOf(t))
  \/ \E a \in Threads : TrackRefused(a)
  \/ \E a \in Threads : TrackAdmitted(a)
  \/ \E a \in Threads, err \in SaveErrs : GuardedSaveReturn(a, err)
  \/ \E a \in Threads, err \in SaveErrs : SaveReturn(a, err)
  \/ \E t \in Callers : Cancel(t)
  \/ TraceTick

SpecTrace == InitTrace /\ [][NextTrace]_vars

\* ------------------------------------------------- shared breaker
\* A client with a circuit breaker traces one call (TraceCaller, and in
\* asynchronous dispatch the goroutine of its call) while the other threads
\* use the same breaker: each of them runs the guarded Save of a traced
\* call of its own, or asks for the state.  A Save may stay in progress for
\* ever.
OtherUsers ==
  Threads \ ({TraceCaller}
               \cup (IF asyncTracking THEN {GoroutineOf(TraceCaller)} ELSE {}))
HangProviders == {ProviderOpenAI, ProviderMistral}
HangResponses == {Response(FALSE, TRUE, 5, 10), NilResponse}
HangProviderErrs == {Nil, "API error: rate limit exceeded"}

InitHang == InitTrace /\ hasCB

HangTraceBegin(kind) == TraceBegin(TraceCaller, kind, FALSE, "gpt-4", Background)
HangProviderReturn(resp, err) == ProviderReturn(TraceCaller, resp, err)
HangGoStart == GoStart(GoroutineOf(TraceCaller))
HangOtherBeginCall(b) ==
  /\ b \in OtherUsers
  /\ Issue(b) /\ BeginCall(b) /\ UNCHANGED <<hist, seqGhost, clientVars>>
HangOtherCallRefuse(b) ==
  /\ b \in OtherUsers
  /\ CallRefuse(b) /\ UNCHANGED <<hist, seqGhost, clientVars>>
HangOtherCallAdmit(b) ==
  /\ b \in OtherUsers
  /\ CallAdmit(b) /\ UNCHANGED <<hist, seqGhost, clientVars>>
HangOtherSaveReturn(b, err) ==
  /\ b \in OtherUsers
  /\ CallReturn(b, err) /\ UNCHANGED <<hist, seqGhost, clientVars>>
HangOtherBeginGetState(b, isOpen) ==
  /\ b \in OtherUsers
  /\ Issue(b) /\ BeginGetState(b, isOpen)
  /\ UNCHANGED <<hist, seqGhost, clientVars>>
HangOtherGetState(b) ==
  /\ b \in OtherUsers
  /\ GetState(b) /\ UNCHANGED <<hist, seqGhost, clientVars>>
HangTick == Tick(ConcMaxNow) /\ UNCHANGED <<hist, seqGhost, clientVars>>

NextHang ==
  \/ \E kind \in HangProviders : HangTraceBegin(kind)
  \/ \E resp \in HangResponses, err \in HangProviderErrs :
       HangProviderReturn(resp, err)
  \/ HangGoStart
  \/ \E a \in Threads : TrackRefused(a)
  \/ \E a \in Threads : TrackAdmitted(a)
  \/ \E a \in Threads, err \in SaveErrs : GuardedSaveReturn(a, err)
  \/ \E b \in Threads : HangOtherBeginCall(b)
  \/ \E b \in Threads : HangOtherCallRefuse(b)
  \/ \E b \in Threads : HangOtherCallAdmit(b)
  \/ \E b \in Threads, err \in SaveErrs : HangOtherSaveReturn(b, err)
  \/ \E b \in Threads, isOpen \in BOOLEAN : HangOtherBeginGetState(b, isOpen)
  \/ \E b \in Threads : HangOtherGetState(b)
  \/ HangTick

SpecHang == InitHang /\ [][NextHang]_vars

\* ------------------------------------------------------ context chains
traceIDKey == "llm_trace_id"
userIDKey == "llm_user_id"
workflowKey == "llm_workflow"
featureKey == "llm_feature"
dimensionsKey == "llm_dimensions"

\* handles of contexts: RootView is context.Background(), NilView a nil
\* context.Context, i in 1..Len(views) the context made by the i-th With*
RootView == 0
NilView == 0 - 1
Handles == {NilView} \cup (RootView..Len(views))

\* what ctx.Value(key) finds when no context of the chain holds the key
NoValue == [parent |-> RootView, key |-> "", str |-> Absent, map |-> EmptyMap]

\* an attach that also writes the value into the parent
WithValue_inPlace(h, parent, key, str, map) ==
  Append(IF parent = RootView THEN h
         ELSE [h EXCEPT ![parent] = [@ EXCEPT !.key = key, !.str = str, !.map = map]],
         [parent |-> parent, key |-> key, str |-> str, map |-> map])

\* context.WithValue(parent, key, val): a new valueCtx over the parent; val
\* is a string (str) or, under dimensionsKey, a map
WithValue(h, parent, key, str, map) ==
  Append(h, [parent |-> parent, key |-> key, str |-> str, map |-> map])

\* ctx.Value(key): the nearest context of the chain that holds the key
RECURSIVE Value(_, _, _)
Value(h, id, key) ==
  IF id = RootView THEN NoValue
  ELSE IF h[id].key = key THEN h[id]
  ELSE Value(h, h[id].parent, key)

\* the context of a handle, as the Get*FromContext functions read it
ViewOf(h, id) ==
  IF id = NilView THEN NilCtx
  ELSE [isNil |-> FALSE,
        traceID |-> Value(h, id, traceIDKey).str,
        userID |-> Value(h, id, userIDKey).str,
        workflow |-> Value(h, id, workflowKey).str,
        feature |-> Value(h, id, featureKey).str,
        hasDims |-> Value(h, id, dimensionsKey).key = dimensionsKey,
        dims |-> Value(h, id, dimensionsKey).map,
        cancel |-> NoCancel]

TraceIDs == {"", "trace-1", "trace-2"}
UserIDs == {"", "user-1"}
Workflows == {"chat"}
Features == {"summarize"}
Map1(k, v) == [x \in {k} |-> v]
Map2(k1, v1, k2, v2) == [x \in {k1, k2} |-> IF x = k1 THEN v1 ELSE v2]
\* the custom dimension maps callers attach
CustomMaps ==
  {Map1("team", StrVal("support")),
   Map2("tier", IntVal(42), "team", StrVal("sales")),
   Map2("user_id", StrVal("custom-user"), "feature", StrVal("custom-feature"))}

\* a With* call derives a context from a non-nil context made before
\* (context.WithValue panics on a nil parent)
CanDerive(parent) ==
  /\ Len(views) < MaxViews
  /\ parent \in RootView..Len(views)
  /\ call[TraceCaller].status = "idle"

Derive(parent, key, str, map) ==
  /\ CanDerive(parent)
  /\ views' = WithValue(views, parent, key, str, map)
  /\ UNCHANGED <<core, hist, seqGhost, asyncTracking, hasCB, call, job,
                 SaveCalls, ErrorCalls, uuids, cancelled, errIn, errType>>

CtxWithTraceID(parent, traceID) == Derive(parent, traceIDKey, traceID, EmptyMap)
CtxWithUserID(parent, userID) == Derive(parent, userIDKey, userID, EmptyMap)
CtxWithWorkflow(parent, workflow) ==
  Derive(parent, workflowKey, workflow, EmptyMap)
CtxWithFeature(parent, feature) == Derive(parent, featureKey, feature, EmptyMap)
CtxWithDimensions(parent, dimensions) ==
  Derive(parent, dimensionsKey, Absent, dimensions)

\* a synchronous or asynchronous client without breaker; the caller derives
\* contexts and then traces one OpenAI call with one of them
InitCtx ==
  /\ asyncTracking \in BOOLEAN
  /\ hasCB = FALSE
  /\ cb = NewCircuitBreaker(1, 0)
  /\ InitThreads
  /\ InitHarness
  /\ call = [t \in Callers |-> NewCall]
  /\ job = [a \in Threads |-> NoJob]
  /\ SaveCalls = [t \in Callers |-> <<>>]
  /\ ErrorCalls = [t \in Callers |-> <<>>]
  /\ uuids = 0
  /\ cancelled = {}
  /\ views = <<>>
  /\ NoCategorize

CtxTraceBegin(id) ==
  TraceBegin(TraceCaller, ProviderOpenAI, FALSE, "gpt-4", ViewOf(views, id))
CtxProviderReturn ==
  ProviderReturn(TraceCaller, Response(FALSE, TRUE, 5, 10), Nil)
CtxGoStart == GoStart(GoroutineOf(TraceCaller))
CtxSaveReturn(a) == SaveReturn(a, Nil)

NextCtx ==
  \/ \E parent \in Handles, traceID \in TraceIDs :
       CtxWithTraceID(parent, traceID)
  \/ \E parent \in Handles, userID \in UserIDs : CtxWithUserID(parent, userID)
  \/ \E parent \in Handles, workflow \in Workflows :
       CtxWithWorkflow(parent, workflow)
  \/ \E parent \in Handles, feature \in Features :
       CtxWithFeature(parent, feature)
  \/ \E parent \in Handles, dimensions \in CustomMaps :
       CtxWithDimensions(parent, dimensions)
  \/ \E id \in Handles : CtxTraceBegin(id)
  \/ CtxProviderReturn
  \/ CtxGoStart
  \/ \E a \in Threads : CtxSaveReturn(a)

SpecCtx == InitCtx /\ [][NextCtx]_vars

\* ------------------------------------------------- error classification
\* the words error messages are made of: keywords of every group, some
\* capitalised, and words that belong to no group
ErrWords ==
  {"Rate", "limit", "429", "Unauthorized", "API", "key", "connection", "dial",
   "tcp", "Timeout", "deadline", "exceeded", "504", "invalid", "BAD", "request",
   "500", "server", "error", "failed"}
Messages == UNION {[1..n -> ErrWords] : n \in 0..MaxWords}
Errors == {NilError} \cup {ErrorOf(ws) : ws \in Messages}

\* one call of CategorizeError, on nil or on an error with some message
InitErr ==
  /\ errIn \in Errors
  /\ errType = NotCategorized
  /\ cb = NewCircuitBreaker(1, 0)
  /\ InitThreads
  /\ InitHarness
  /\ asyncTracking = FALSE
  /\ hasCB = FALSE
  /\ call = [t \in Callers |-> NewCall]
  /\ job = [a \in Threads |-> NoJob]
  /\ SaveCalls = [t \in Callers |-> <<>>]
  /\ ErrorCalls = [t \in Callers |-> <<>>]
  /\ uuids = 0
  /\ cancelled = {}
  /\ views = <<>>

Categorize ==
  /\ errType = NotCategorized
  /\ errType' = CategorizeErrorValue(errIn)
  /\ UNCHANGED <<core, hist, seqGhost, asyncTracking, hasCB, call, job,
                 SaveCalls, ErrorCalls, uuids, cancelled, views, errIn>>

NextErr == Categorize

SpecErr == InitErr /\ [][NextErr]_vars

\* ------------------------------------------------ helpers for the claims
Rep(x, n) == [i \in 1..n |-> x]
HasSuffix(h, s) == Len(h) >= Len(s) /\ SubSeq(h, Len(h) - Len(s) + 1, Len(h)) = s
AllFail(h) == \A i \in 1..Len(h) : h[i] = "fail"
TrailingFails(h) ==
  CHOOSE k \in 0..Len(h) :
    /\ \A i \in (Len(h) - k + 1)..Len(h) : h[i] = "fail"
    /\ (k < Len(h) => h[Len(h) - k] # "fail")
LastOutcome(h) == IF Len(h) = 0 THEN "none" ELSE h[Len(h)]
Elapsed == now - cb.lastFailTime

\* the step in which thread a leaves Call's entry (refused or admitted)
EntersCall(a) == pc[a] = "Call" /\ pc'[a] # "Call"
\* the step in which the wrapped fn of thread a returns and Call returns
ReturnsFromFn(a) == pc[a] = "fn" /\ pc'[a] = "done"
\* the step in which thread a runs GetState / IsOpen
RunsGetState(a) == pc[a] = "GetState" /\ pc'[a] = "done"
\* the sequential thread has just returned from a Call
JustReturned == pc[SeqThread] = "done" /\ op[SeqThread] = "Call"

\* C3 - Breaker threshold: on a fresh breaker with maxFailures = N, after
\* each of the first N-1 consecutive failed Calls the state is Closed, and
\* after the N-th consecutive failed Call it is Open.
C3_Threshold ==
  (JustReturned /\ AllFail(hist)) =>
     /\ (Len(hist) < cb.maxFailures => cb.state = StateClosed)
     /\ (Len(hist) = cb.maxFailures => cb.state = StateOpen)

C3_Witness ==
  /\ JustReturned /\ AllFail(hist)
  /\ cb.maxFailures = MaxN /\ Len(hist) = MaxN
  /\ cb.state = StateOpen

\* C4 - Fail-fast while open: a Call that finds the breaker Open with at
\* most resetTimeout elapsed since the last failure returns ErrCircuitOpen
\* without invoking fn; a Call that invoked fn returns fn's own result.
C4_FailFast ==
  [][\A a \in Threads :
       /\ (EntersCall(a) /\ cb.state = StateOpen /\ Elapsed <= cb.resetTimeout)
            => (pc'[a] = "done" /\ ret'[a] = ErrCircuitOpen /\ ~called'[a]
                /\ fnRes'[a] = NoResult)
       /\ ReturnsFromFn(a) => (called[a] /\ ret'[a] = fnRes'[a]
                                /\ fnRes'[a] \in FnErrs)
       /\ (pc'[a] = "done" /\ op'[a] = "Call" /\ called'[a])
            => ret'[a] = fnRes'[a]]_vars

C4_Witness ==
  /\ JustReturned /\ ret[SeqThread] = ErrCircuitOpen
  /\ ~called[SeqThread] /\ cb.state = StateOpen
  /\ LastOutcome(hist) = "refused"

\* C5 - Timeout-driven half-open: on an Open breaker, once more than
\* resetTimeout has elapsed since the last failure the next GetState returns
\* Half-Open and the next Call invokes fn as a trial; while at most
\* resetTimeout has elapsed GetState returns Open and Call is refused.
C5_HalfOpenAfterTimeout ==
  [][\A a \in Threads :
       /\ (RunsGetState(a) /\ cb.state = StateOpen) =>
            IF Elapsed > cb.resetTimeout
              THEN /\ cb'.state = StateHalfOpen
                   /\ ret'[a] = IF op[a] = "IsOpen" THEN "false" ELSE StateHalfOpen
              ELSE /\ cb' = cb
                   /\ ret'[a] = IF op[a] = "IsOpen" THEN "true" ELSE StateOpen
       /\ (EntersCall(a) /\ cb.state = StateOpen) =>
            IF Elapsed > cb.resetTimeout
              THEN pc'[a] = "fn" /\ called'[a] /\ cb'.state = StateHalfOpen
              ELSE pc'[a] = "done" /\ ret'[a] = ErrCircuitOpen /\ cb' = cb]_vars

C5_Witness ==
  /\ pc[SeqThread] = "fn" /\ called[SeqThread]
  /\ cb.state = StateHalfOpen
  /\ Elapsed = cb.resetTimeout + 1
  /\ LastOutcome(hist) = "refused"

\* C6 - Half-open recovery: in Half-Open the first successful Call leaves
\* the breaker Half-Open, the second consecutive successful Call closes it
\* with failures = 0, and up to maxFailures-1 failures right after the two
\* successes leave it Closed.
C6_HalfOpenRecovery ==
  [][ReturnsFromFn(SeqThread) =>
       /\ (cb.state = StateHalfOpen /\ ret'[SeqThread] = Nil) =>
            IF LastOutcome(hist) = "ok"
              THEN cb'.state = StateClosed /\ cb'.failures = 0
              ELSE cb'.state = StateHalfOpen
       /\ \A k \in 0..(cb.maxFailures - 1) :
            HasSuffix(hist', <<"ok", "ok">> \o Rep("fail", k))
              => cb'.state = StateClosed]_vars

C6_Witness ==
  /\ JustReturned
  /\ cb.maxFailures = MaxN
  /\ hist = Rep("fail", MaxN) \o <<"ok", "ok">> \o Rep("fail", MaxN - 1)
  /\ cb.state = StateClosed

\* C7 - Half-open relapse: in every Half-Open state, also after a first
\* successful trial call, one failed Call moves the breaker to Open.
C7_HalfOpenRelapse ==
  [][(ReturnsFromFn(SeqThread) /\ cb.state = StateHalfOpen
        /\ ret'[SeqThread] # Nil) => cb'.state = StateOpen]_vars

C7_Witness ==
  /\ JustReturned
  /\ cb.maxFailures = MaxN
  /\ hist = Rep("fail", MaxN) \o <<"ok", "fail">>
  /\ cb.state = StateOpen

\* C8 - Closed-state forgiveness: while Closed a successful Call resets
\* failures to 0, and a failed Call opens the breaker exactly when it is the
\* maxFailures-th failure in a row; N-1 failures, a success and N-1 failures
\* leave a fresh breaker Closed, one more failure opens it.
C8_ClosedForgiveness ==
  [][ReturnsFromFn(SeqThread) =>
       LET N == cb.maxFailures
           scenario == Rep("fail", N - 1) \o <<"ok">> \o Rep("fail", N - 1)
       IN
       /\ (cb.state = StateClosed /\ ret'[SeqThread] = Nil)
            => (cb'.state = StateClosed /\ cb'.failures = 0)
       /\ (cb.state = StateClosed /\ ret'[SeqThread] # Nil)
            => (cb'.state = StateOpen <=> TrailingFails(hist') = N)
       /\ hist' = scenario => cb'.state = StateClosed
       /\ hist' = scenario \o <<"fail">> => cb'.state = StateOpen]_vars

C8_Witness ==
  /\ JustReturned
  /\ cb.maxFailures = MaxN
  /\ hist = Rep("fail", MaxN - 1) \o <<"ok">> \o Rep("fail", MaxN - 1) \o <<"fail">>
  /\ cb.state = StateOpen

InFn == {a \in Threads : pc[a] = "fn"}

\* C9 - Mutual exclusion: at most one wrapped fn runs at a time and it runs
\* under the lock; no Call enters and no GetState reads or changes the state
\* while a Call is in progress, and the breaker state changes only in a step
\* of the lock holder or of a thread that finds the lock free.
C9_MutualExclusion ==
  /\ [](Cardinality(InFn) <= 1 /\ \A a \in InFn : mu = a)
  /\ [][/\ \A a \in Threads :
             (EntersCall(a) \/ RunsGetState(a)) => (InFn = {} /\ mu = NoHolder)
        /\ cb' # cb =>
             \/ \E a \in Threads : ReturnsFromFn(a) /\ mu = a
             \/ InFn = {} /\ mu = NoHolder]_vars

C9_Witness ==
  /\ cb.state = StateHalfOpen
  /\ \E a, b \in Threads :
       /\ a # b
       /\ pc[a] = "fn" /\ mu = a
       /\ pc[b] = "Call"

Busy(a) == pc[a] \in {"Call", "fn", "GetState"}

\* C10 - Concurrency safety: with threads concurrently issuing Call (fn
\* terminates) and GetState on one breaker, the state is always Closed, Open
\* or Half-Open, every result and (between operations) every field equal
\* those of a sequential run of the finished operations, and every
\* invocation eventually returns.
C10_ConcurrencySafety ==
  /\ [](cb.state \in States)
  /\ [](seqOK /\ (mu = NoHolder => cb = seq))
  /\ \A a \in Threads : Busy(a) ~> (pc[a] = "done")

C10_Witness ==
  /\ \A a \in Threads : pc[a] = "done" /\ op[a] = "Call" /\ called[a]
  /\ \E a, b \in Threads : ret[a] = Nil /\ ret[b] = TestErr
  /\ cb.state = StateOpen /\ cb.failures > cb.maxFailures

\* the thread or goroutine that tracks the call of caller t
Tracker(t) == IF asyncTracking THEN GoroutineOf(t) ELSE t
\* the tracking of caller t's call has run to the end of doTrack
Tracked(t) == Tracking(Tracker(t)) /\ pc[Tracker(t)] = "done"
\* the save attempt of caller t's call failed, and with which error
SaveRefused(t) == Tracked(t) /\ hasCB /\ ~called[Tracker(t)]
SaveFailed(t) ==
  Tracked(t) /\ called[Tracker(t)] /\ fnRes[Tracker(t)] \in SaveErrs \ {Nil}
SaveError(t) == IF SaveRefused(t) THEN ErrCircuitOpen ELSE fnRes[Tracker(t)]
TrackErrs == {ErrCircuitOpen} \cup (SaveErrs \ {Nil})

\* C1 - Pass-through: for every Trace* call with a non-nil provider
\* function, once the provider function has returned (R, E) the call goes on
\* to return exactly (R, E): save succeeding, failing or refused, tracking
\* synchronous or asynchronous.
C1_PassThrough ==
  \A t \in Callers :
    (~call[t].fnNil /\ call[t].provRes # NoOutcome) =>
       /\ call[t].status \in {"tracking", "returned"}
       /\ (call[t].status = "returned" => call[t].result = call[t].provRes)

\* C2 - Every failed save attempt of a traced call (a storage Save error or
\* the circuit-open error) is reported by exactly one logger Error call
\* carrying that error and is never returned to the caller of Trace*; a
\* successful save, or no save yet, produces no logger call.
C2_LoggedNotReturned ==
  \A t \in Callers :
    /\ (SaveRefused(t) \/ SaveFailed(t)) =>
          /\ Len(ErrorCalls[t]) = 1
          /\ ErrorCalls[t][1].error = SaveError(t)
    /\ ~(SaveRefused(t) \/ SaveFailed(t)) => ErrorCalls[t] = <<>>
    /\ (call[t].status = "returned" /\ call[t].provRes # NoOutcome) =>
          /\ call[t].result.err \notin TrackErrs
          /\ call[t].result.err = call[t].provRes.err

C2_Witness ==
  /\ ~asyncTracking
  /\ SaveRefused(TraceCaller)
  /\ Len(ErrorCalls[TraceCaller]) = 1
  /\ ErrorCalls[TraceCaller][1].error = ErrCircuitOpen
  /\ SaveCalls[TraceCaller] = <<>>
  /\ call[TraceCaller].status = "returned"
  /\ call[TraceCaller].result.err = Nil


\* caller t's call was rejected by the argument checks of Trace*Request
Rejected(t) == call[t].status = "returned" /\ call[t].provRes = NoOutcome
\* caller t's call got past the argument checks
Accepted(t) == call[t].status # "idle" /\ ~Rejected(t)
\* the provider function of caller t's call has returned
ProviderReturned(t) == call[t].provRes # NoOutcome

\* C11 - The breaker guards only the storage write: with a circuit breaker
\* configured, whatever the breaker's state, a Trace* call invokes the
\* provider function exactly once and returns its result; a call whose save
\* the Open breaker refuses never invokes storage Save.
C11_BreakerGuardsOnlySave ==
  \A t \in Callers :
    (hasCB /\ Accepted(t)) =>
       /\ call[t].fnCalls = 1
       /\ (ProviderReturned(t) => call[t].status \in {"tracking", "returned"})
       /\ (call[t].status = "returned" => call[t].result = call[t].provRes)
       /\ (SaveRefused(t) => SaveCalls[t] = <<>>)

\* the trace id carried by the context of caller t's call, if any
CarriesTraceID(t) ==
  ~call[t].ctx.isNil /\ call[t].ctx.traceID # Absent /\ call[t].ctx.traceID # ""

\* C12 - Asynchronous dispatch keeps the trace id: when the caller's context
\* carries trace id T, the record handed to storage for that call has
\* TraceID = T.
C12_AsyncTraceID ==
  \A t \in Callers :
    (asyncTracking /\ CarriesTraceID(t)) =>
       \A i \in 1..Len(SaveCalls[t]) :
         SaveCalls[t][i].Request.TraceID = call[t].ctx.traceID

\* the dimension tags of a context: its custom dimensions, then user id,
\* workflow and feature where set and non-empty, each value as text
NamedValues(ctx) ==
  {p \in {<<"user_id", ctx.userID>>, <<"workflow", ctx.workflow>>,
          <<"feature", ctx.feature>>} : p[2] # Absent /\ p[2] # ""}
FlatDimensions(ctx) ==
  IF ctx.isNil THEN {}
  ELSE {[Key |-> p[1], Value |-> p[2]] : p \in NamedValues(ctx)}
         \cup {[Key |-> k, Value |-> Sprint(ctx.dims[k])] :
                 k \in DOMAIN ctx.dims \ {p[1] : p \in NamedValues(ctx)}}

\* C13 - The dimensions of the record handed to storage are exactly the
\* flattened dimensions of the caller's context, in asynchronous dispatch
\* as in synchronous dispatch.
C13_AsyncDimensions ==
  \A t \in Callers :
    \A i \in 1..Len(SaveCalls[t]) :
      SaveCalls[t][i].Request.Dimensions = FlatDimensions(call[t].ctx)

C13_Witness ==
  /\ asyncTracking
  /\ call[TraceCaller].ctx = FullCtx
  /\ Len(SaveCalls[TraceCaller]) = 1
  /\ SaveCalls[TraceCaller][1].Ctx = Background
  /\ Cardinality(SaveCalls[TraceCaller][1].Request.Dimensions) = 5
  /\ [Key |-> "retries", Value |-> "3"]
       \in SaveCalls[TraceCaller][1].Request.Dimensions

\* the save attempt of caller t's call has completed: Save returned (nil or
\* an error) or the breaker refused it
AttemptDone(t) ==
  \E a \in Threads :
    /\ job[a] # NoJob /\ job[a].call = t /\ job[a].request # NoRequest
    /\ pc[a] = "done"
    /\ \/ called[a] /\ fnRes[a] \in SaveErrs /\ Len(SaveCalls[t]) = 1
       \/ ~called[a] /\ ret[a] = ErrCircuitOpen /\ SaveCalls[t] = <<>>

\* C14 - Synchronous dispatch: a Trace* call that invoked the provider
\* function has not returned to its caller before the save attempt for the
\* call (Save success, Save failure or circuit-open refusal) has completed.
C14_SyncWaitsForSave ==
  \A t \in Callers :
    (~asyncTracking /\ ProviderReturned(t) /\ call[t].status = "returned")
       => AttemptDone(t)

C14_Witness ==
  /\ ~asyncTracking /\ hasCB
  /\ call[TraceCaller].status = "returned"
  /\ call[TraceCaller].provRes.err = Nil
  /\ AttemptDone(TraceCaller)
  /\ fnRes[TraceCaller] = "database connection failed"
  /\ cb.state = StateOpen

\* C15 - Asynchronous dispatch: once the provider function has returned, the
\* Trace* call has returned to its caller with the provider's result,
\* whether the save for the call has not started, is in progress (and may
\* never complete) or is over.
C15_AsyncReturnsAtOnce ==
  \A t \in Callers :
    (asyncTracking /\ ProviderReturned(t)) =>
       /\ call[t].status = "returned"
       /\ call[t].result = call[t].provRes
       /\ pc[t] = "idle" /\ mu # t

\* a save attempt for caller t's call has happened: Save was invoked, or the
\* breaker refused the call
SaveAttempted(t) ==
  \/ Len(SaveCalls[t]) >= 1
  \/ \E a \in Threads :
       /\ job[a] # NoJob /\ job[a].call = t /\ job[a].request # NoRequest
       /\ pc[a] = "done" /\ ~called[a] /\ ret[a] = ErrCircuitOpen
\* a goroutine that has yet to make the save attempt of caller t's call
\* exists: started by track and not yet run, or waiting for the breaker
AttemptPending(t) ==
  \E a \in Threads :
    /\ job[a] # NoJob /\ job[a].call = t
    /\ (job[a].request = NoRequest \/ pc[a] = "Call")

\* C16 - Asynchronous dispatch liveness, as the safety property a fair
\* scheduler turns into it: for every Trace* call whose provider function
\* was invoked and returned, the save attempt has happened or a goroutine
\* that is about to make it exists, and the call has returned.
C16_AsyncSaveHappens ==
  \A t \in Callers :
    (asyncTracking /\ ProviderReturned(t)) =>
       /\ SaveAttempted(t) \/ AttemptPending(t)
       /\ SaveAttempted(t) => call[t].status = "returned"

\* the provider function of caller t's call has returned and nothing that
\* could still invoke Save for the call is left
Settled(t) == ProviderReturned(t) /\ ~AttemptPending(t)
\* the breaker admitted the save of caller t's call
Admitted(t) ==
  \E a \in Threads :
    job[a] # NoJob /\ job[a].call = t /\ job[a].request # NoRequest
      /\ op[a] = "Call" /\ called[a]

\* C17 - At-most-once delivery: for each Trace* call, storage Save is invoked
\* at most once, and exactly once when no circuit breaker is configured or
\* the breaker admits the call, whatever the provider function returned.
C17_SaveAtMostOnce ==
  \A t \in Callers :
    /\ Len(SaveCalls[t]) <= 1
    /\ (Settled(t) /\ ~hasCB) => Len(SaveCalls[t]) = 1
    /\ (hasCB /\ Admitted(t)) => Len(SaveCalls[t]) = 1
    /\ SaveRefused(t) => SaveCalls[t] = <<>>

\* the contexts of the saves of caller t's call: those passed to Save and
\* those held by a tracking that has yet to call Save
SaveContexts(t) ==
  {SaveCalls[t][i].Ctx : i \in 1..Len(SaveCalls[t])}
    \cup {job[a].ctx : a \in {b \in Threads : job[b] # NoJob /\ job[b].call = t}}
\* the context of caller t's call has been cancelled
CallerCancelled(t) == Done(call[t].ctx)

\* C18 - Cancellation link: in synchronous mode the context passed to
\* storage Save is the caller's context, cancelled exactly when the
\* caller's is; in asynchronous mode no context of a pending or in-flight
\* Save is ever cancelled, whenever the caller cancels its own.
C18_CancellationLink ==
  \A t \in Callers :
    \A c \in SaveContexts(t) :
      IF asyncTracking
        THEN c.isNil \/ c.cancel \notin cancelled
        ELSE /\ c = call[t].ctx
             /\ (~c.isNil /\ c.cancel \in cancelled) <=> CallerCancelled(t)

C18_Witness ==
  /\ asyncTracking
  /\ CallerCancelled(TraceCaller)
  /\ call[TraceCaller].status = "returned"
  /\ pc[GoroutineOf(TraceCaller)] \in {"fn", "Save"}
  /\ Len(SaveCalls[TraceCaller]) = 1
  /\ SaveCalls[TraceCaller][1].Ctx.cancel = NoCancel

\* caller t's call was given a nil provider function or, for Mistral and
\* Google, an empty model name
BadArguments(t) ==
  /\ call[t].status # "idle"
  /\ \/ call[t].fnNil
     \/ call[t].kind \in {"mistral", "google"} /\ call[t].model = ""

\* C19 - Programmer errors fail fast: a Trace* call given a nil provider
\* function (or, for Mistral and Google, an empty model name) returns an
\* error without invoking the provider function or storage Save, without
\* changing the circuit breaker and without logging.
C19_FailFast ==
  \A t \in Callers :
    BadArguments(t) =>
       /\ call[t].status = "returned"
       /\ call[t].result.err \notin {Nil, NoResult}
       /\ call[t].result.resp \in {NilResponse, ZeroResponse}
       /\ call[t].fnCalls = 0 /\ call[t].provRes = NoOutcome
       /\ SaveCalls[t] = <<>> /\ ErrorCalls[t] = <<>>
       /\ \A a \in Threads : job[a] = NoJob /\ pc[a] = "idle"
       /\ cb = seq /\ mu = NoHolder

C19_Witness ==
  /\ hasCB /\ cb.state = StateOpen
  /\ call[TraceCaller].kind = "google" /\ call[TraceCaller].model = ""
  /\ ~call[TraceCaller].fnNil
  /\ call[TraceCaller].status = "returned"
  /\ call[TraceCaller].result = [resp |-> NilResponse, err |-> "model cannot be empty"]
  /\ now > 0

\* the outcome of caller t's provider function has been handed to the save
\* path: track was called with it
HandedToSavePath(t) ==
  \E a \in Threads :
    /\ job[a] # NoJob /\ job[a].call = t
    /\ job[a].apiErr = call[t].provRes.err
    /\ job[a].provider = call[t].kind /\ job[a].model = call[t].model

\* C20 - Record construction never fails: for every outcome of the provider
\* function, a nil response with a nil error included, the Trace* call does
\* not fail, returns that outcome, and the outcome is handed to the save
\* path, where a record is built from it.
C20_RecordAlwaysBuilt ==
  \A t \in Callers :
    ProviderReturned(t) =>
       /\ call[t].status # "panicked"
       /\ HandedToSavePath(t)
       /\ (call[t].status = "returned" => call[t].result = call[t].provRes)
       /\ \A a \in Threads :
            (job[a] # NoJob /\ job[a].request # NoRequest) =>
               /\ job[a].request.InputTokens >= 0
               /\ job[a].request.OutputTokens >= 0
               /\ job[a].request.ID # ""
               /\ job[a].request.TraceID # ""

\* the trackings that have built their record: goroutine or thread a, with
\* the arguments doTrack was given and the record
Built == {a \in Threads : job[a] # NoJob /\ job[a].request # NoRequest}
\* every record handed to storage is the record of its tracking
SavedAreBuilt ==
  \A t \in Callers : \A i \in 1..Len(SaveCalls[t]) :
    \E a \in Built : job[a].call = t /\ job[a].request = SaveCalls[t][i].Request

\* C21 - Token normalization: the record's InputTokens is max(0, input) and
\* its OutputTokens is max(0, output) of the counts given to the tracking
\* step, each clamped on its own; every record handed to storage has
\* non-negative counts.
C21_TokensClamped ==
  /\ \A a \in Built :
       /\ job[a].request.InputTokens =
            (IF job[a].inputTokens > 0 THEN job[a].inputTokens ELSE 0)
       /\ job[a].request.OutputTokens =
            (IF job[a].outputTokens > 0 THEN job[a].outputTokens ELSE 0)
  /\ SavedAreBuilt
  /\ \A t \in Callers : \A i \in 1..Len(SaveCalls[t]) :
       /\ SaveCalls[t][i].Request.InputTokens >= 0
       /\ SaveCalls[t][i].Request.OutputTokens >= 0

C21_Witness ==
  \E a \in Built :
    /\ job[a].inputTokens < 0 /\ job[a].outputTokens > 0
    /\ Len(SaveCalls[job[a].call]) = 1
    /\ SaveCalls[job[a].call][1].Request.InputTokens = 0
    /\ SaveCalls[job[a].call][1].Request.OutputTokens = job[a].outputTokens

\* C22 - Status code: every record handed to storage has StatusCode 500 and
\* Error equal to the provider error's message when the provider function
\* returned a non-nil error, and StatusCode 200 with an empty Error
\* otherwise.
C22_StatusCode ==
  \A t \in Callers : \A i \in 1..Len(SaveCalls[t]) :
    LET r == SaveCalls[t][i].Request
        e == call[t].provRes.err
    IN  /\ ProviderReturned(t)
        /\ r.StatusCode \in {200, 500}
        /\ (e # Nil => r.StatusCode = 500 /\ r.Error = e)
        /\ (e = Nil => r.StatusCode = 200 /\ r.Error = "")

C22_Witness ==
  /\ Len(SaveCalls[TraceCaller]) = 1
  /\ call[TraceCaller].provRes.err = ""
  /\ SaveCalls[TraceCaller][1].Request.StatusCode = 500
  /\ SaveCalls[TraceCaller][1].Request.Error = ""

\* C23 - Error type on the record: for every record handed to storage,
\* ErrorType is the none category exactly when the provider function
\* returned no error, and otherwise is CategorizeError of the returned
\* error, for every non-nil error (one with an empty message included).
C23_ErrorType ==
  \A t \in Callers : \A i \in 1..Len(SaveCalls[t]) :
    LET r == SaveCalls[t][i].Request
        e == call[t].provRes.err
    IN  /\ (r.ErrorType = ErrorTypeNone) <=> (e = Nil)
        /\ (e # Nil => r.ErrorType = CategorizeError(e))

\* C24 - Usage extraction: when the provider function returned a non-nil
\* error the record's token counts are both 0 whatever the response carries;
\* when it succeeded and the response carries usage they are that pair
\* (negative counts clamped to 0), and 0/0 when usage is absent.
C24_UsageExtraction ==
  \A t \in Callers : \A i \in 1..Len(SaveCalls[t]) :
    LET r == SaveCalls[t][i].Request
        o == call[t].provRes
        tokens == <<r.InputTokens, r.OutputTokens>>
    IN  IF o.err # Nil \/ o.resp.isNil \/ ~o.resp.hasUsage
          THEN tokens = <<0, 0>>
          ELSE tokens = <<IF o.resp.prompt > 0 THEN o.resp.prompt ELSE 0,
                          IF o.resp.completion > 0 THEN o.resp.completion ELSE 0>>

C24_Witness ==
  /\ Len(SaveCalls[TraceCaller]) = 1
  /\ call[TraceCaller].provRes.err = "API error: rate limit exceeded"
  /\ call[TraceCaller].provRes.resp.prompt = 5
  /\ call[TraceCaller].provRes.resp.completion = 10
  /\ SaveCalls[TraceCaller][1].Request.InputTokens = 0
  /\ SaveCalls[TraceCaller][1].Request.OutputTokens = 0

\* the contexts on the chain from handle id up to context.Background(), the
\* later made having the larger index
RECURSIVE Chain(_, _)
Chain(h, id) ==
  IF id = NilView \/ id = RootView THEN {} ELSE {id} \cup Chain(h, h[id].parent)
\* the contexts of the chain of id that were made by attaching key
Attached(h, id, key) == {i \in Chain(h, id) : h[i].key = key}
\* the one made last among them
Latest(h, id, key) ==
  CHOOSE i \in Attached(h, id, key) : \A j \in Attached(h, id, key) : j <= i
\* the string attached last under key on the chain of id, if any
LastString(h, id, key) ==
  IF Attached(h, id, key) = {} THEN Absent ELSE h[Latest(h, id, key)].str
\* the uuid.New() values a read may be handed
UUIDDraws == 0..2

\* C25 - Trace id resolution: reading the trace id from a context returns
\* the most recently attached trace id when it is non-empty, and otherwise
\* (nil context, no trace id, or empty trace id) a freshly generated
\* non-empty id; in synchronous mode the record's TraceID is the caller
\* context's trace id when present.
C25_TraceIDResolution ==
  /\ \A id \in Handles : \A k \in UUIDDraws :
       LET last == LastString(views, id, traceIDKey)
           read == GetTraceIDFromContext(ViewOf(views, id), k)
       IN  IF last # Absent /\ last # ""
             THEN read.id = last /\ ~read.fresh
             ELSE /\ read.fresh /\ read.id = UUID(k)
                  /\ read.id # "" /\ read.id \notin TraceIDs
  /\ \A t \in Callers :
       (~asyncTracking /\ CarriesTraceID(t)) =>
          \A i \in 1..Len(SaveCalls[t]) :
            SaveCalls[t][i].Request.TraceID = call[t].ctx.traceID

C25_Witness ==
  /\ ~asyncTracking
  /\ Len(views) = 2
  /\ views[1].key = traceIDKey /\ views[1].str = "trace-1"
  /\ views[2].key = traceIDKey /\ views[2].str = "trace-2"
  /\ views[2].parent = 1
  /\ call[TraceCaller].ctx = ViewOf(views, 2)
  /\ Len(SaveCalls[TraceCaller]) = 1
  /\ SaveCalls[TraceCaller][1].Request.TraceID = "trace-2"

\* the keys GetDimensionsFromContext writes for individually attached values
NamedKeys == {"user_id", "workflow", "feature"}
\* the individually attached value a context holds for such a key
NamedValue(ctx, key) ==
  CASE key = "user_id" -> ctx.userID
    [] key = "workflow" -> ctx.workflow
    [] key = "feature" -> ctx.feature
\* the value is set and non-empty
IsSet(ctx, key) == NamedValue(ctx, key) # Absent /\ NamedValue(ctx, key) # ""
\* the keys of the flattened dimensions of a non-nil context
FlatKeys(ctx) == DOMAIN ctx.dims \cup {key \in NamedKeys : IsSet(ctx, key)}
\* the tags of a record with a given key
TagsOf(request, key) == {d \in request.Dimensions : d.Key = key}

\* C26 - Dimension merge: the record's dimension tags are exactly one tag
\* per key of the flattened context dimensions (user_id, workflow, feature
\* when set and non-empty, plus the custom keys), and a trace id attached
\* with WithTraceID never appears among the dimension tags.
C26_DimensionTags ==
  /\ \A a \in Built :
       LET ctx == call[job[a].call].ctx
           request == job[a].request
           keys == IF ctx.isNil THEN {} ELSE FlatKeys(ctx)
       IN  /\ \A key \in keys : Cardinality(TagsOf(request, key)) = 1
           /\ \A d \in request.Dimensions : d.Key \in keys
           /\ \A key \in DOMAIN job[a].trackingContext :
                TagsOf(request, key) =
                  {[Key |-> key, Value |-> Sprint(job[a].trackingContext[key])]}
           /\ CarriesTraceID(job[a].call) =>
                \A d \in request.Dimensions :
                  /\ d.Value # ctx.traceID
                  /\ d.Key \notin {"trace_id", traceIDKey}
  /\ SavedAreBuilt

C26_Witness ==
  /\ Len(views) = 2
  /\ views[1].key = traceIDKey /\ views[1].str = "trace-1"
  /\ views[2].key = userIDKey /\ views[2].str = "user-1" /\ views[2].parent = 1
  /\ Len(SaveCalls[TraceCaller]) = 1
  /\ SaveCalls[TraceCaller][1].Request.TraceID = "trace-1"
  /\ SaveCalls[TraceCaller][1].Request.Dimensions =
       {[Key |-> "user_id", Value |-> "user-1"]}

\* C27 - Flattening order: reading all dimensions takes the custom dimension
\* map first and then overlays user_id, workflow and feature, each only when
\* set to a non-empty string: a custom key named user_id, workflow or
\* feature is replaced by the individually attached non-empty value and kept
\* when the individual value is absent or empty, and each key appears once.
C27_FlatteningOrder ==
  \A id \in RootView..Len(views) :
    LET ctx == ViewOf(views, id)
        custom == IF Attached(views, id, dimensionsKey) = {} THEN EmptyMap
                  ELSE views[Latest(views, id, dimensionsKey)].map
        named == [key \in NamedKeys |->
                    LastString(views, id, CASE key = "user_id" -> userIDKey
                                            [] key = "workflow" -> workflowKey
                                            [] key = "feature" -> featureKey)]
        overlaid == {key \in NamedKeys : named[key] # Absent /\ named[key] # ""}
        flat == GetDimensionsFromContext(ctx)
    IN  /\ DOMAIN flat = DOMAIN custom \cup overlaid
        /\ \A key \in overlaid : flat[key] = StrVal(named[key])
        /\ \A key \in DOMAIN custom \ overlaid : flat[key] = custom[key]

\* a custom user_id and feature, the user id then attached on its own: the
\* user id replaces the custom user_id, the custom feature stays
C27_Witness ==
  /\ Len(views) = 2
  /\ views[1].key = dimensionsKey /\ "user_id" \in DOMAIN views[1].map
  /\ views[2].key = userIDKey /\ views[2].str = "user-1" /\ views[2].parent = 1
  /\ GetDimensionsFromContext(ViewOf(views, 2)) =
       Map2("user_id", StrVal("user-1"), "feature", StrVal("custom-feature"))

\* the contexts of the chain of id made after context i
Later(h, id, i) == {j \in Chain(h, id) : j > i}

\* C28 - Context layering: after any sequence of attach operations, every
\* earlier-attached value is still visible when read from the resulting
\* context unless a later attach overwrote that same key; in particular
\* attaching a second custom dimension map with different keys keeps the
\* keys of the first map visible.
C28_Layering ==
  \A id \in RootView..Len(views) : \A i \in Chain(views, id) :
    LET ctx == ViewOf(views, id)
        flat == GetDimensionsFromContext(ctx)
        kept == \A j \in Later(views, id, i) : views[j].key # views[i].key
    IN  /\ (views[i].key = traceIDKey /\ views[i].str # "" /\ kept) =>
             GetTraceIDFromContext(ctx, 0).id = views[i].str
        /\ (views[i].key = userIDKey /\ kept) =>
             GetUserIDFromContext(ctx) = views[i].str
        /\ (views[i].key = workflowKey /\ views[i].str # "" /\ kept) =>
             ("workflow" \in DOMAIN flat /\ flat["workflow"] = StrVal(views[i].str))
        /\ (views[i].key = featureKey /\ views[i].str # "" /\ kept) =>
             ("feature" \in DOMAIN flat /\ flat["feature"] = StrVal(views[i].str))
        /\ views[i].key = dimensionsKey =>
             \A key \in DOMAIN views[i].map :
               (/\ \A j \in Later(views, id, i) :
                     views[j].key = dimensionsKey => key \notin DOMAIN views[j].map
                /\ ~(key \in NamedKeys /\ IsSet(ctx, key)))
               => (key \in DOMAIN flat /\ flat[key] = views[i].map[key])

\* the values a caller can read from a context
Reads(h, id) ==
  [traceID |-> [k \in UUIDDraws |-> GetTraceIDFromContext(ViewOf(h, id), k)],
   userID |-> GetUserIDFromContext(ViewOf(h, id)),
   dimensions |-> GetDimensionsFromContext(ViewOf(h, id))]

\* C29 - Immutable chaining: attaching a value to a context yields a new
\* view and leaves the parent unchanged: the trace id and the dimensions
\* read from a context are the same after any step as before it, however
\* many children are derived from it.
C29_ImmutableChaining ==
  [][/\ Len(views') >= Len(views)
     /\ \A id \in Handles : Reads(views', id) = Reads(views, id)]_vars

\* a child that attaches another trace id over its parent's, and a parent
\* that still reads its own
C29_Witness ==
  /\ Len(views) = 2
  /\ views[2].parent = 1
  /\ views[1].key = traceIDKey /\ views[1].str = "trace-1"
  /\ views[2].key = traceIDKey /\ views[2].str = "trace-2"
  /\ GetTraceIDFromContext(ViewOf(views, 1), 0).id = "trace-1"
  /\ GetTraceIDFromContext(ViewOf(views, 2), 0).id = "trace-2"

\* the keyword groups in the order the classifier tests them
KeywordGroups ==
  <<[type |-> ErrorTypeRateLimit,
     keywords |-> {<<"rate", "limit">>, <<"too", "many", "requests">>, <<"429">>}],
    [type |-> ErrorTypeAuthentication,
     keywords |-> {<<"unauthorized">>, <<"authentication">>, <<"api", "key">>,
                   <<"401">>, <<"403">>, <<"forbidden">>}],
    [type |-> ErrorTypeNetwork,
     keywords |-> {<<"connection">>, <<"network">>, <<"dial", "tcp">>, <<"dns">>,
                   <<"no", "such", "host">>}],
    [type |-> ErrorTypeTimeout,
     keywords |-> {<<"timeout">>, <<"deadline", "exceeded">>,
                   <<"context", "canceled">>}],
    [type |-> ErrorTypeInvalidRequest,
     keywords |-> {<<"invalid">>, <<"bad", "request">>, <<"400">>, <<"malformed">>}],
    [type |-> ErrorTypeServerError,
     keywords |-> {<<"500">>, <<"502">>, <<"503">>, <<"504">>, <<"server", "error">>,
                   <<"internal", "error">>}]>>
TimeoutGroup == 4
\* the groups that have a keyword in the lower-cased message
Matching(ws) ==
  {g \in DOMAIN KeywordGroups :
     \E kw \in KeywordGroups[g].keywords : ContainsWords(Lower(ws), kw)}
FirstMatch(ws) == CHOOSE g \in Matching(ws) : \A g2 \in Matching(ws) : g <= g2

\* C30 - Error classification is first-match over ordered keyword groups,
\* case-insensitively: nil maps to none; otherwise the result is the
\* category of the first group, in the order rate-limit, authentication,
\* network, timeout, invalid-request, server-error, that has a keyword in
\* the lower-cased message (a timeout match with "504" in the message being
\* server-error), and unknown when no group matches; a message with a
\* network keyword and "timeout" but no rate-limit or authentication keyword
\* is network.
C30_FirstMatch ==
  errType # NotCategorized =>
    IF errIn.isNil THEN errType = ErrorTypeNone
    ELSE /\ IF Matching(errIn.words) = {} THEN errType = ErrorTypeUnknown
            ELSE IF FirstMatch(errIn.words) = TimeoutGroup
                    /\ ContainsWords(Lower(errIn.words), <<"504">>)
              THEN errType = ErrorTypeServerError
            ELSE errType = KeywordGroups[FirstMatch(errIn.words)].type
         /\ ({3, 4} \subseteq Matching(errIn.words)
               /\ Matching(errIn.words) \cap {1, 2} = {}
             => errType = ErrorTypeNetwork)

C30_Witness ==
  /\ errIn = ErrorOf(<<"dial", "tcp", "Timeout">>)
  /\ errType = ErrorTypeNetwork

\* the message of the categorized error holds the word w, in any case
Mentions(w) == ContainsWords(Lower(errIn.words), <<w>>)

\* C31 - 504 exception: a message that contains a timeout keyword and
\* "504", and no rate-limit, authentication or network keyword, is
\* classified as server_error; no message containing "504" is ever
\* classified as timeout.
C31_GatewayTimeout ==
  (errType # NotCategorized /\ ~errIn.isNil /\ Mentions("504")) =>
     /\ errType # ErrorTypeTimeout
     /\ (TimeoutGroup \in Matching(errIn.words)
           /\ Matching(errIn.words) \cap {1, 2, 3} = {}
         => errType = ErrorTypeServerError)

C31_Witness ==
  /\ errIn = ErrorOf(<<"504", "failed", "Timeout">>)
  /\ errType = ErrorTypeServerError

\* C32 - Automatic recovery: once every attempted wrapped operation
\* succeeds, time keeps advancing and guarded calls keep being issued, the
\* breaker, whatever state it is in, eventually becomes Closed and stays
\* Closed, by Call and GetState alone.
C32_AutomaticRecovery == [](Healthy => <>[](cb.state = StateClosed))

\* closed again by two trial successes after a failure had opened it
C32_Witness ==
  /\ Healthy
  /\ cb.state = StateClosed
  /\ cb.lastFailTime >= 0
  /\ cb.successCount = CloseThreshold

\* C33 - A failed trial call in Half-Open sets lastFailTime to the time of
\* that failure and re-opens the breaker; lastFailTime moves in no other
\* way than by a failed fn, and an Open breaker refuses every Call until
\* more than resetTimeout has passed since lastFailTime: so the re-opened
\* breaker refuses for a full resetTimeout counted from the trial failure.
C33_TrialFailureRestartsTimeout ==
  [][\A a \in Threads :
       /\ (ReturnsFromFn(a) /\ cb.state = StateHalfOpen /\ ret'[a] # Nil)
            => (cb'.state = StateOpen /\ cb'.lastFailTime = now)
       /\ (cb'.lastFailTime # cb.lastFailTime /\ pc'[a] # pc[a])
            => (ReturnsFromFn(a) /\ ret'[a] # Nil /\ cb'.lastFailTime = now)
       /\ (EntersCall(a) /\ cb.state = StateOpen
             /\ now <= cb.lastFailTime + cb.resetTimeout)
            => (ret'[a] = ErrCircuitOpen /\ ~called'[a] /\ cb' = cb)]_vars

\* opened at time 0 or later, re-opened by the failed trial, and a Call
\* refused some time after the trial failure
C33_Witness ==
  /\ JustReturned /\ ret[SeqThread] = ErrCircuitOpen
  /\ cb.maxFailures = 1
  /\ hist = <<"fail", "fail", "refused">>
  /\ cb.state = StateOpen /\ cb.failures = 2
  /\ cb.lastFailTime > cb.resetTimeout
  /\ now > cb.lastFailTime

\* C34 - Lazy transition: the stored breaker state changes only in a step
\* of Call, GetState or IsOpen, never by the passage of time alone;
\* GetState changes nothing except turning an Open breaker whose timeout
\* has elapsed into Half-Open with successCount 0 (failures and
\* lastFailTime untouched), and IsOpen returns true exactly when GetState
\* at that moment returns Open.
C34_LazyTransition ==
  [][/\ now' # now => cb' = cb
     /\ cb' # cb =>
          \E a \in Threads : EntersCall(a) \/ ReturnsFromFn(a) \/ RunsGetState(a)
     /\ \A a \in Threads :
          RunsGetState(a) =>
            /\ cb' = IF cb.state = StateOpen /\ Elapsed > cb.resetTimeout
                       THEN [cb EXCEPT !.state = StateHalfOpen, !.successCount = 0]
                       ELSE cb
            /\ op[a] = "GetState" => ret'[a] = cb'.state
            /\ op[a] = "IsOpen" =>
                 (ret'[a] = "true" <=> cb'.state = StateOpen)
                 /\ ret'[a] \in {"true", "false"}]_vars

\* IsOpen has turned the open breaker into a half-open one and said false
C34_Witness ==
  /\ pc[SeqThread] = "done" /\ op[SeqThread] = "IsOpen"
  /\ ret[SeqThread] = "false"
  /\ cb.state = StateHalfOpen /\ cb.successCount = 0
  /\ cb.failures = cb.maxFailures
  /\ Elapsed > cb.resetTimeout
  /\ LastOutcome(hist) = "fail"

\* C35 - Successes are counted per half-open episode: every transition
\* from Open to Half-Open, by Call or by GetState, sets successCount to 0;
\* a success of an earlier episode that ended in a relapse never counts, so
\* the breaker closes only on the second of two successes in a row within
\* one episode.
C35_SuccessesPerEpisode ==
  [][/\ (cb.state = StateOpen /\ cb'.state = StateHalfOpen)
          => (cb'.successCount = 0
              /\ \E a \in Threads : EntersCall(a) \/ RunsGetState(a))
     /\ (cb.state = StateHalfOpen /\ cb'.state = StateClosed)
          => /\ ReturnsFromFn(SeqThread)
             /\ HasSuffix(hist', <<"ok", "ok">>)
             /\ cb.successCount = 1 /\ cb'.successCount = CloseThreshold
     /\ (ReturnsFromFn(SeqThread) /\ cb.state = StateHalfOpen
           /\ ret'[SeqThread] = Nil /\ LastOutcome(hist) # "ok")
          => (cb'.state = StateHalfOpen /\ cb'.successCount = 1)]_vars

\* a success, a relapse, and a success in the next episode: still half-open
C35_Witness ==
  /\ JustReturned
  /\ cb.maxFailures = 1
  /\ hist = <<"fail", "ok", "fail", "ok">>
  /\ cb.state = StateHalfOpen /\ cb.successCount = 1

\* C36 - Breaker invariant: for maxFailures >= 1, in every state observed
\* between calls, the state is Closed if and only if failures is strictly
\* less than maxFailures (Open and Half-Open have failures >= maxFailures),
\* and successCount is at most 1 while Half-Open.
C36_BreakerInvariant ==
  (cb.maxFailures >= 1 /\ mu = NoHolder) =>
     /\ (cb.state = StateClosed <=> cb.failures < cb.maxFailures)
     /\ (cb.state \in {StateOpen, StateHalfOpen} => cb.failures >= cb.maxFailures)
     /\ (cb.state = StateHalfOpen => cb.successCount \in {0, 1})

\* half-open with one success counted, after a relapse
C36_Witness ==
  /\ JustReturned /\ mu = NoHolder
  /\ cb.state = StateHalfOpen /\ cb.successCount = 1
  /\ cb.failures = cb.maxFailures + 1

\* the step in which the Call of thread a is refused
IsRefused(a) == EntersCall(a) /\ pc'[a] = "done" /\ ret'[a] = ErrCircuitOpen

\* C37 - A Call refused with ErrCircuitOpen leaves state, failures,
\* successCount and lastFailTime unchanged; however many calls were refused
\* while Open, the first Call or GetState after more than resetTimeout
\* since the last failure finds the breaker ready to become Half-Open.
C37_RefusalChangesNothing ==
  [][\A a \in Threads :
       /\ IsRefused(a) =>
            /\ cb'.state = cb.state /\ cb'.failures = cb.failures
            /\ cb'.successCount = cb.successCount
            /\ cb'.lastFailTime = cb.lastFailTime
            /\ cb.state = StateOpen
       /\ (cb.state = StateOpen /\ LastOutcome(hist) = "refused"
             /\ Elapsed > cb.resetTimeout) =>
            /\ EntersCall(a) => (pc'[a] = "fn" /\ cb'.state = StateHalfOpen)
            /\ RunsGetState(a) => cb'.state = StateHalfOpen]_vars

\* refused twice, and admitted as the trial at the first moment the
\* timeout counted from the failure has elapsed
C37_Witness ==
  /\ pc[SeqThread] = "fn" /\ cb.state = StateHalfOpen
  /\ HasSuffix(hist, <<"fail", "refused", "refused">>)
  /\ Elapsed = cb.resetTimeout + 1

\* C38 - Breaker counters depend only on storage Save outcomes: a traced
\* call whose provider call failed but whose Save succeeded is recorded as
\* a breaker success, one whose provider call succeeded but whose Save
\* failed as a breaker failure; provider errors alone never open the
\* breaker.
C38_OnlySaveOutcomesCount ==
  [][/\ \A a \in Threads :
          (ReturnsFromFn(a) /\ Tracking(a)) =>
            IF fnRes'[a] = Nil
              THEN /\ cb'.lastFailTime = cb.lastFailTime
                   /\ cb'.state # StateOpen
                   /\ cb'.failures =
                        IF cb.state = StateHalfOpen /\ cb.successCount = 0
                          THEN cb.failures ELSE 0
                   /\ cb'.successCount =
                        IF cb.state = StateHalfOpen
                          THEN cb.successCount + 1 ELSE cb.successCount
              ELSE /\ cb'.failures = cb.failures + 1
                   /\ cb'.lastFailTime = now
                   /\ cb'.successCount = cb.successCount
                   /\ (cb'.state = StateOpen <=> cb'.failures >= cb.maxFailures)
     /\ cb' # cb => \E a \in Threads : EntersCall(a) \/ ReturnsFromFn(a)
     /\ (cb.state # StateOpen /\ cb'.state = StateOpen) =>
          \E a \in Threads : ReturnsFromFn(a) /\ fnRes'[a] \in SaveErrs \ {Nil}]_vars

\* the provider failed, the Save succeeded, and the breaker forgot the
\* failed Save it had counted before
C38_Witness ==
  /\ hasCB /\ Tracked(TraceCaller)
  /\ call[TraceCaller].provRes.err = "API error: rate limit exceeded"
  /\ called[Tracker(TraceCaller)] /\ fnRes[Tracker(TraceCaller)] = Nil
  /\ cb.state = StateClosed /\ cb.failures = 0
  /\ cb.lastFailTime = 0

\* the threads whose Save is in progress under the breaker's lock
Saving == {a \in Threads : pc[a] = "fn"}
\* the threads waiting for the breaker's lock, in Call or in GetState
Waiting == {b \in Threads : pc[b] \in {"Call", "GetState"}}
\* the step in which the provider function of caller t's call returns
ProviderReturns(t) == ~ProviderReturned(t) /\ ProviderReturned(t)'

\* C39 - With a circuit breaker and synchronous dispatch, while one Save
\* is in progress every other traced call blocks after its provider call
\* until that Save finishes, and as long as the Save does not return those
\* calls, and GetState, do not return; with asynchronous dispatch a hung
\* Save blocks only the detached tracking work and every Trace* call still
\* returns.
C39_HungSave ==
  [][/\ \A a \in Saving :
          pc'[a] = "fn" =>
            /\ \A b \in Waiting : pc'[b] = pc[b] /\ ret'[b] = NoResult
            /\ \A t \in Callers \ {a} :
                 /\ call[t].status = "tracking" => call'[t].status = "tracking"
                 /\ (~asyncTracking /\ ProviderReturns(t)) =>
                      (call'[t].status = "tracking" /\ pc'[t] = "Call")
     /\ \A t \in Callers :
          (asyncTracking /\ ProviderReturns(t)) =>
             /\ call'[t].status = "returned"
             /\ call'[t].result = call'[t].provRes
             /\ pc'[t] = "idle"
     /\ \A t \in Callers :
          (asyncTracking /\ call[t].status = "returned") =>
             call'[t].status = "returned"]_vars

TypeOK ==
  /\ cb.state \in States
  /\ mu \in Threads \cup {NoHolder}
  /\ asyncTracking \in BOOLEAN /\ hasCB \in BOOLEAN
  /\ cancelled \subseteq Callers
  /\ Len(views) <= MaxViews
  /\ errIn.isNil \in BOOLEAN /\ Len(errIn.words) <= MaxWords
  /\ errType \in {NotCategorized, ErrorTypeNone, ErrorTypeNetwork,
                  ErrorTypeRateLimit, ErrorTypeAuthentication,
                  ErrorTypeInvalidRequest, ErrorTypeTimeout,
                  ErrorTypeServerError, ErrorTypeUnknown}
  /\ \A i \in 1..Len(views) : views[i].parent \in RootView..(i - 1)
  /\ \A a \in Threads :
       pc[a] \in {"idle", "Call", "fn", "GetState", "Save", "done"}
  /\ \A t \in Callers :
       call[t].status \in {"idle", "provider", "tracking", "returned", "panicked"}
====
